---- MODULE Spec2Model ----
(***************************************************************************)
(* CDPClient (src/src/lib/cdp-client.ts) and the auto-connect policy       *)
(* ensureConnected (src/src/tools/dom/index.ts) as a state machine.        *)
(*                                                                         *)
(* The program runs on one JavaScript event loop: the code between two     *)
(* awaits runs without interleaving.  Each action below is one such run:   *)
(* a call up to its first await, or the continuation that a reply from the *)
(* target (or from the directory endpoint) resumes, up to the next await   *)
(* or the return.  Several calls can be in flight at once.  A call has no  *)
(* identity beyond its own locals, so the calls in flight are a bag of     *)
(* records holding those locals.                                           *)
(***************************************************************************)
EXTENDS Integers, Sequences, FiniteSets, Bags, TLC

VARIABLES
    connections,        \* CDPClient.connections : target id -> connection object (0: no entry)
    connected,          \* the connected flag of the connection object that wraps channel c
    channels,           \* every channel CDP() has opened, in order of opening
    connectedTargetId,  \* the target id ensureConnected remembers ("null": none)
    calls,              \* the locals of the calls suspended at an await
    returned,           \* the call that returned or threw in the last step, and its outcome
    permissions,        \* the status the OS holds for each capability
    device              \* the native calls of the last step of the device layer, in
                        \* order; none after a change of status

vars == <<connections, connected, channels, connectedTargetId, calls, returned,
          permissions, device>>

(* A step of the CDP client and of the tools over it makes no native call. *)
DeviceUntouched == UNCHANGED <<permissions, device>>

-----------------------------------------------------------------------------
(* Bounds *)

(* Calls in flight at once. *)
MaxCalls == 2
(* Channels CDP() opens before every further open is refused. *)
MaxChannels == 2

ChannelIds == 1..MaxChannels

(* Target ids: two page targets and one webview. *)
Targets == {"t1", "t2", "w1"}
PageTargets == {"t1", "t2"}
NoTarget == "null"

(* The four domains connect enables (cdp-client.ts:64-69). *)
Domains == {"DOM", "Runtime", "Page", "Network"}

NoConn == 0

(* The capabilities the device layer is gated on, and the statuses of
   PermissionStatus (types/index.ts); "unreadable" is a status whose read by
   getAuthStatus throws. *)
Capabilities == {"accessibility", "screen-capture"}
Statuses == {"not-determined", "denied", "authorized", "restricted"}
Unreadable == "unreadable"

-----------------------------------------------------------------------------
(* Outcomes of a call.  A value is a tag and, for an object, its properties
   as name/value pairs. *)

Returned(v, ps) ==
    [kind |-> "ok", message |-> "", originalError |-> "", value |-> v, props |-> ps]

ReturnedVoid == Returned("undefined", {})

(* new CDPError(message, {originalError}) *)
CDPError(m, orig) ==
    [kind |-> "CDPError", message |-> m, originalError |-> orig, value |-> "", props |-> {}]

(* new Error(message) *)
PlainError(m) ==
    [kind |-> "Error", message |-> m, originalError |-> "", value |-> "", props |-> {}]

-----------------------------------------------------------------------------
(* CDPClient queries *)

(* isConnected(targetId): connection?.connected || false *)
isConnected(t) ==
    /\ connections[t] # NoConn
    /\ connected[connections[t]]

(* getActiveConnections(): the keys whose entry has connected = true *)
getActiveConnections ==
    {t \in Targets : connections[t] # NoConn /\ connected[connections[t]]}

(* Array.from(this.connections.keys()) *)
ConnectionKeys == {t \in Targets : connections[t] # NoConn}

OpenChannels == {c \in 1..Len(channels) : channels[c].state = "open"}

-----------------------------------------------------------------------------
(* Calls *)

InFlight == BagToSet(calls)

(* The locals of a call of method o with argument t, suspended at `at`;
   `targets` is the answer of listTargets() that ensureConnected holds,
   `sequence` and `step` the argument and the loop position of
   send_key_sequence, `options` the second argument of screenshot, `nodeId`
   the second argument of getNodeAttributes when the model tracks it (0: it
   does not), `nodeIds` and `details` the locals of query_selector_all. *)
NoOptions == [format |-> "undefined", quality |-> "undefined"]

Call(o, t, at, c, cl, sn) ==
    [op |-> o, target |-> t, pc |-> at, client |-> c, closes |-> cl, snapshot |-> sn,
     targets |-> <<>>, sequence |-> <<>>, step |-> 0, options |-> NoOptions,
     nodeId |-> 0, nodeIds |-> <<>>, details |-> <<>>]

(* A reply to one request: rejected with an error, or the fields of the
   result object the methods read (`targets` for an answer of CDP.List).
   `threw` tells whether the code given to electron_execute threw inside the
   target; the reply itself does not show it. *)
NoReply ==
    [fails |-> FALSE, error |-> "", exception |-> FALSE, text |-> "", value |-> "",
     threw |-> FALSE, attributes |-> <<>>, nodeId |-> 0, nodeIds |-> <<>>, targets |-> <<>>]

(* What a step that returns from a call leaves in `returned`: the method, its
   argument, the outcome, whether the call had been suspended at an await,
   the channel it held, for disconnectAll the keys it read with their
   connection objects, the reply that resumed the call, and the node id the
   call was given when the model tracks it. *)
Outcome(o, t, r, su, c, sn, rp) ==
    [op |-> o, target |-> t, result |-> r, suspended |-> su, client |-> c,
     snapshot |-> sn, reply |-> rp, nodeId |-> 0]

NoReturn == Outcome("none", NoTarget, ReturnedVoid, FALSE, 0, {}, NoReply)

(* The calls in flight other than k. *)
Others(k) == calls (-) SetToBag({k})

(* A call suspends at an await with locals k2; `others` are the other calls. *)
Suspend(others, k2) ==
    /\ calls' = others (+) SetToBag({k2})
    /\ returned' = NoReturn

(* A call of method o with argument t returns or throws r in its first run. *)
ReturnAtOnce(o, t, r) ==
    /\ calls' = calls
    /\ returned' = Outcome(o, t, r, FALSE, 0, {}, NoReply)

(* The suspended call k returns or throws r. *)
Return(k, r) ==
    /\ calls' = Others(k)
    /\ returned' = [Outcome(k.op, k.target, r, TRUE, k.client, k.snapshot, NoReply)
                       EXCEPT !.nodeId = k.nodeId]

(* The suspended call k, resumed by `reply`, returns or throws r. *)
Resume(k, reply, r) ==
    /\ calls' = Others(k)
    /\ returned' = [Outcome(k.op, k.target, r, TRUE, k.client, k.snapshot, reply)
                       EXCEPT !.nodeId = k.nodeId]

Init ==
    /\ connections = [t \in Targets |-> NoConn]
    /\ connected = [c \in ChannelIds |-> FALSE]
    /\ channels = <<>>
    /\ connectedTargetId = NoTarget
    /\ calls = EmptyBag
    /\ returned = NoReturn
    /\ permissions = [c \in Capabilities |-> "not-determined"]
    /\ device = <<>>

-----------------------------------------------------------------------------
(* connect(targetId), cdp-client.ts:46-81 *)

ConnectFailed(orig) == CDPError("Failed to connect to target", orig)

(* What the method that awaited connect returns once connect has returned:
   connect itself returns nothing; ensureConnected (dom/index.ts:271) returns
   the client and the remembered target id as it is then. *)
AfterConnect(o, remembered) ==
    IF o = "ensureConnected"
    THEN Returned("session", {<<"targetId", remembered>>})
    ELSE ReturnedVoid

(* connect without the check of lines 49-54: CDP({target}) is always awaited. *)
ConnectEnter_AlwaysOpens(others, o, t, remembered) ==
    Suspend(others, Call(o, t, "opening", 0, {}, {}))

(* Lines 48-61: the already-connected check, then CDP({target}) is awaited. *)
ConnectEnter(others, o, t, remembered) ==
    IF isConnected(t)
    THEN /\ calls' = others
         /\ returned' = Outcome(o, t, AfterConnect(o, remembered), others # calls, 0, {}, NoReply)
    ELSE Suspend(others, Call(o, t, "opening", 0, {}, {}))

ConnectCall(t) ==
    /\ ConnectEnter(calls, "connect", t, connectedTargetId)
    /\ UNCHANGED <<connections, connected, channels, connectedTargetId>>

(* Line 57 resolves: the channel is open; lines 64-69 issue the four enables. *)
ChannelOpened(k) ==
    /\ k.pc = "opening"
    /\ Len(channels) < MaxChannels
    /\ channels' = Append(channels,
                     [state |-> "open", setup |-> "enabling", enabled |-> {}])
    /\ Suspend(Others(k), [k EXCEPT !.pc = "enabling", !.client = Len(channels) + 1])
    /\ UNCHANGED <<connections, connected, connectedTargetId>>

(* connect with one more attempt of CDP() after the first is rejected. *)
ChannelOpenFailed_Retries(k) ==
    /\ k.pc = "opening"
    /\ k.step = 0
    /\ Suspend(Others(k), [k EXCEPT !.step = 1])
    /\ UNCHANGED <<connections, connected, channels, connectedTargetId>>

(* Line 57 rejects: the catch of lines 76-80 rethrows. *)
ChannelOpenFailed(k) ==
    /\ k.pc = "opening"
    /\ Return(k, ConnectFailed("open failed"))
    /\ UNCHANGED <<connections, connected, channels, connectedTargetId>>

(* Lines 71-75 without connected: true. *)
StoreConnection_Unflagged(t, c) ==
    /\ connections' = [connections EXCEPT ![t] = c]
    /\ connected' = connected

(* Lines 71-75: this.connections.set(targetId, {targetId, client, connected: true}) *)
StoreConnection(t, c) ==
    /\ connections' = [connections EXCEPT ![t] = c]
    /\ connected' = [connected EXCEPT ![c] = TRUE]

(* How the four enables of one connect can end: the enables that are rejected. *)
EnableOutcomes == {{}} \cup {{d} : d \in Domains} \cup {Domains}

(* Promise.all of lines 64-69 resolves when none of the four enables is
   rejected, and rejects otherwise. *)
AllEnabled(rejected) == rejected = {}

(* What the catch of lines 76-80 does to the channel `client` that line 57
   opened: nothing.  Which domains an abandoned channel ends with is not
   tracked. *)
AbandonChannel(ch) == [ch EXCEPT !.setup = "abandoned"]

(* The await of lines 64-69 settles; `rejected` are the enables the target
   rejects.  No code of the program runs on a single acknowledgement, only
   when Promise.all settles: then lines 71-75 store the connection, or the
   catch of lines 76-80 rethrows. *)
EnablesSettled(k, rejected) ==
    /\ k.pc = "enabling"
    /\ IF AllEnabled(rejected)
       THEN /\ channels' = [channels EXCEPT ![k.client].setup = "ready",
                                            ![k.client].enabled = Domains \ rejected]
            /\ StoreConnection(k.target, k.client)
            /\ Return(k, AfterConnect(k.op, connectedTargetId))
       ELSE /\ channels' = [channels EXCEPT ![k.client] = AbandonChannel(@)]
            /\ Return(k, ConnectFailed("enable failed"))
            /\ UNCHANGED <<connections, connected>>
    /\ UNCHANGED connectedTargetId

-----------------------------------------------------------------------------
(* disconnect(targetId), cdp-client.ts:86-97 *)

(* Lines 87-90, 96: the entry is read; close() is awaited only when it exists
   and is connected, otherwise the body of the if is skipped and the call
   returns at once. *)
DisconnectCall(t) ==
    /\ IF isConnected(t)
       THEN Suspend(calls, Call("disconnect", t, "closing", connections[t], {}, {}))
       ELSE ReturnAtOnce("disconnect", t, ReturnedVoid)
    /\ UNCHANGED <<connections, connected, channels, connectedTargetId>>

(* disconnect without line 91: the flag of the closed connection stays set. *)
AfterClose_FlagKept(t, c, closed) ==
    /\ channels' = IF closed THEN [channels EXCEPT ![c].state = "closed"] ELSE channels
    /\ connected' = connected
    /\ connections' = [connections EXCEPT ![t] = NoConn]

(* disconnect without line 95: the entry of the closed connection stays. *)
AfterClose_EntryKept(t, c, closed) ==
    /\ channels' = IF closed THEN [channels EXCEPT ![c].state = "closed"] ELSE channels
    /\ connected' = IF closed THEN [connected EXCEPT ![c] = FALSE] ELSE connected
    /\ connections' = connections

(* disconnect with the delete of line 95 moved into the try block: the entry
   stays when close() rejects. *)
AfterClose_KeptWhenCloseFails(t, c, closed) ==
    /\ channels' = IF closed THEN [channels EXCEPT ![c].state = "closed"] ELSE channels
    /\ connected' = IF closed THEN [connected EXCEPT ![c] = FALSE] ELSE connected
    /\ connections' = IF closed THEN [connections EXCEPT ![t] = NoConn] ELSE connections

(* Lines 90-95 once close() has settled for connection object c of target t:
   connected = false only when close() resolved (the catch skips line 91),
   and this.connections.delete(targetId) either way. *)
AfterClose(t, c, closed) ==
    /\ channels' = IF closed THEN [channels EXCEPT ![c].state = "closed"] ELSE channels
    /\ connected' = IF closed THEN [connected EXCEPT ![c] = FALSE] ELSE connected
    /\ connections' = [connections EXCEPT ![t] = NoConn]

CloseSettled(k, closed) ==
    /\ k.pc = "closing"
    /\ AfterClose(k.target, k.client, closed)
    /\ Return(k, ReturnedVoid)
    /\ UNCHANGED connectedTargetId

-----------------------------------------------------------------------------
(* disconnectAll(), cdp-client.ts:102-107 *)

(* Lines 103-105 run disconnect(targetId) for every key up to its await: the
   keys, each with the connection object whose close() is now awaited. *)
ClosesStarted ==
    {[target |-> t, conn |-> connections[t]] : t \in {x \in ConnectionKeys : isConnected(x)}}

(* Line 103: Array.from(this.connections.keys()), each key with the
   connection object it maps to at that time. *)
KeysRead == {[target |-> t, conn |-> connections[t]] : t \in ConnectionKeys}

DisconnectAllCall ==
    /\ IF ClosesStarted = {}
       THEN /\ calls' = calls
            /\ returned' = Outcome("disconnectAll", NoTarget, ReturnedVoid, FALSE, 0,
                                   KeysRead, NoReply)
       ELSE Suspend(calls, Call("disconnectAll", NoTarget, "closingAll", 0,
                                ClosesStarted, KeysRead))
    /\ UNCHANGED <<connections, connected, channels, connectedTargetId>>

(* One of the awaited disconnects finishes; Promise.all (line 106) resolves
   with the last of them. *)
CloseAllSettled(k, x, closed) ==
    /\ k.pc = "closingAll"
    /\ x \in k.closes
    /\ AfterClose(x.target, x.conn, closed)
    /\ IF k.closes = {x}
       THEN Return(k, ReturnedVoid)
       ELSE Suspend(Others(k), [k EXCEPT !.closes = @ \ {x}])
    /\ UNCHANGED connectedTargetId

-----------------------------------------------------------------------------
(* listTargets(), cdp-client.ts:24-41, and ensureConnected(),
   dom/index.ts:248-272 *)

(* target.type of each target id, as the directory endpoint reports it *)
TargetType == [t \in Targets |-> IF t \in PageTargets THEN "page" ELSE "webview"]

(* What CDP.List can answer: target ids in the order of the answer. *)
DiscoveryResults ==
    { <<>>, <<"w1">>, <<"t1">>, <<"w1", "t1", "t2">>, <<"t2", "w1", "t1">> }

IsPage(t) == TargetType[t] = "page"

(* The selection without the filter of dom/index.ts:260. *)
pageTargets_Unfiltered(targets) == targets

(* dom/index.ts:260: targets.filter((t) => t.type === 'page') *)
pageTargets(targets) == SelectSeq(targets, IsPage)

(* cdp-client.ts:36-39 *)
ListFailedError ==
    CDPError("Failed to list CDP targets. Make sure Electron is running with --inspect flag.",
             "list failed")

(* dom/index.ts:263-265 *)
NoTargetsError ==
    PlainError("No Electron targets found. Make sure your Electron app is running with --inspect=9222 flag.")

(* ensureConnected without the test of dom/index.ts:254: it always lists. *)
EnsureConnectedCall_AlwaysLists ==
    /\ Suspend(calls, Call("ensureConnected", NoTarget, "listing", 0, {}, {}))
    /\ UNCHANGED <<connections, connected, channels, connectedTargetId>>

(* dom/index.ts:254-259: the remembered session is returned when it is
   connected; otherwise listTargets() is awaited. *)
EnsureConnectedCall ==
    /\ IF connectedTargetId # NoTarget /\ isConnected(connectedTargetId)
       THEN ReturnAtOnce("ensureConnected", connectedTargetId,
                         Returned("session", {<<"targetId", connectedTargetId>>}))
       ELSE Suspend(calls, Call("ensureConnected", NoTarget, "listing", 0, {}, {}))
    /\ UNCHANGED <<connections, connected, channels, connectedTargetId>>

(* ensureConnected forgetting the remembered target when it finds none. *)
ListSucceeded_ForgetsOnNoTargets(k, targets) ==
    /\ k.pc = "listing"
    /\ Resume(k, [NoReply EXCEPT !.targets = targets], NoTargetsError)
    /\ connectedTargetId' = NoTarget
    /\ UNCHANGED <<connections, connected, channels>>

(* dom/index.ts:260-269 once listTargets() has answered: filter, fail when no
   page target, else remember the first and enter connect. *)
ListSucceeded(k, targets) ==
    /\ k.pc = "listing"
    /\ IF Len(pageTargets(targets)) = 0
       THEN /\ Resume(k, [NoReply EXCEPT !.targets = targets], NoTargetsError)
            /\ UNCHANGED connectedTargetId
       ELSE /\ connectedTargetId' = pageTargets(targets)[1]
            /\ IF isConnected(pageTargets(targets)[1])
               THEN ConnectEnter(Others(k), k.op, pageTargets(targets)[1],
                                 pageTargets(targets)[1])
               ELSE Suspend(Others(k),
                            [Call(k.op, pageTargets(targets)[1], "opening", 0, {}, {})
                                EXCEPT !.targets = targets])
    /\ UNCHANGED <<connections, connected, channels>>

(* CDP.List rejects: listTargets rethrows (cdp-client.ts:35-40) and
   ensureConnected lets it pass. *)
ListFailed(k) ==
    /\ k.pc = "listing"
    /\ Return(k, ListFailedError)
    /\ UNCHANGED <<connections, connected, channels, connectedTargetId>>

-----------------------------------------------------------------------------
CanCall == BagCardinality(calls) < MaxCalls

Next ==
    \/ CanCall /\ \E t \in PageTargets : ConnectCall(t) /\ DeviceUntouched
    \/ CanCall /\ \E t \in PageTargets : DisconnectCall(t) /\ DeviceUntouched
    \/ CanCall /\ DisconnectAllCall /\ DeviceUntouched
    \/ CanCall /\ EnsureConnectedCall /\ DeviceUntouched
    \/ \E k \in InFlight : ChannelOpened(k) /\ DeviceUntouched
    \/ \E k \in InFlight : ChannelOpenFailed(k) /\ DeviceUntouched
    \/ \E k \in InFlight, rejected \in EnableOutcomes : EnablesSettled(k, rejected) /\ DeviceUntouched
    \/ \E k \in InFlight, b \in BOOLEAN : CloseSettled(k, b) /\ DeviceUntouched
    \/ \E k \in InFlight : \E x \in k.closes, b \in BOOLEAN : CloseAllSettled(k, x, b) /\ DeviceUntouched
    \/ \E k \in InFlight, targets \in DiscoveryResults : ListSucceeded(k, targets) /\ DeviceUntouched
    \/ \E k \in InFlight : ListFailed(k) /\ DeviceUntouched

Spec == Init /\ [][Next]_vars

(* ------------------------------------------------------------------------ *)
(* The seven operations on a connected target (cdp-client.ts 112-261)       *)
(* ------------------------------------------------------------------------ *)

Ops == {"getDocument", "querySelector", "querySelectorAll", "getNodeAttributes",
        "getOuterHTML", "evaluate", "screenshot"}

MaxAttrLen == 4        \* Longest raw attribute array a reply carries

AttrStrings == {"id", "x"}

(* Raw attribute arrays [name1, value1, name2, value2, ...] of every length
   up to MaxAttrLen, odd lengths included. *)
AttributeArrays ==
    UNION {[1..n -> AttrStrings] : n \in 0..MaxAttrLen}

TransportErrors == {"WebSocket is not open"}

Rejected(e) == [NoReply EXCEPT !.fails = TRUE, !.error = e]

Rejections == {Rejected(e) : e \in TransportErrors}

(* Replies to DOM.getDocument: rejected, or a root node. *)
DocumentReplies == Rejections \cup {[NoReply EXCEPT !.nodeId = 1]}

(* Replies to DOM.querySelector: nodeId 0 stands for no match. *)
QuerySelectorReplies == Rejections \cup {[NoReply EXCEPT !.nodeId = n] : n \in {0, 5}}

QuerySelectorAllReplies ==
    Rejections \cup {[NoReply EXCEPT !.nodeIds = ids] : ids \in {<<>>, <<5>>, <<5, 6>>}}

AttributesReplies ==
    Rejections \cup {[NoReply EXCEPT !.attributes = a] : a \in AttributeArrays}

OuterHTMLReplies == Rejections \cup {[NoReply EXCEPT !.value = "<div></div>"]}

(* What the evaluated code does in the target: it returns a number, it
   returns an object {__error: true, message: "boom"} of its own, or it
   throws an Error with message "boom". *)
UserCode ==
    {[threw |-> FALSE, value |-> "2"],
     [threw |-> FALSE, value |-> "{__error}"],
     [threw |-> TRUE, value |-> "boom"]}

(* dom/index.ts:304-314: the wrapper returns the value of eval(code), or
   {__error: true, message, stack} when eval threw; returnByValue
   (cdp-client.ts:213) serialises either. *)
wrappedCode(u) ==
    [NoReply EXCEPT !.value = IF u.threw THEN "{__error}" ELSE u.value,
                    !.threw = u.threw]

(* Replies to Runtime.evaluate: rejected, exceptionDetails with or without
   a text, or the value the evaluated code ends with. *)
EvaluateReplies ==
    Rejections
    \cup {[NoReply EXCEPT !.exception = TRUE, !.text = x] : x \in {"Uncaught", ""}}
    \cup {wrappedCode(u) : u \in UserCode}

ScreenshotReplies == Rejections \cup {[NoReply EXCEPT !.value = "iVBORw0KGgo="]}

(* Lines 255-261: getConnection throws unless t has an entry whose flag is
   set. *)
NotConnectedError == CDPError("Not connected to target. Call connect() first.", "")

(* The message of the CDPError each method's catch block throws. *)
FailureMessage ==
    [getDocument |-> "Failed to get document for target",
     querySelector |-> "Failed to query selector",
     querySelectorAll |-> "Failed to query selector all",
     getNodeAttributes |-> "Failed to get attributes for node",
     getOuterHTML |-> "Failed to get outer HTML for node",
     evaluate |-> "Failed to evaluate JavaScript",
     screenshot |-> "Failed to capture screenshot"]

(* catch (error) { throw new CDPError(message, {originalError: error.message}) } *)
Caught(o, error) == CDPError(FailureMessage[o], error.message)

(* The error a rejected request throws at its await. *)
RequestError(reply) == PlainError(reply.error)

(* Methods whose first request is DOM.getDocument (lines 132, 152). *)
RootFirst == {"querySelector", "querySelectorAll"}

(* An operation without the check of getConnection: the request is sent on
   whatever the mapping holds for t. *)
OpCall_NoGetConnection(o, t) ==
    /\ Suspend(calls, Call(o, t, IF o \in RootFirst THEN "root" ELSE "reply",
                           connections[t], {}, {}))
    /\ UNCHANGED <<connections, connected, channels, connectedTargetId>>

(* The first run of each method: getConnection, then the first request. *)
OpCall(o, t) ==
    /\ IF ~isConnected(t)
       THEN ReturnAtOnce(o, t, NotConnectedError)
       ELSE Suspend(calls, Call(o, t, IF o \in RootFirst THEN "root" ELSE "reply",
                                connections[t], {}, {}))
    /\ UNCHANGED <<connections, connected, channels, connectedTargetId>>

(* The options screenshot can be given: a format or none, a quality or none *)
ScreenshotOptions ==
    [format : {"undefined", "png", "jpeg"}, quality : {"undefined", "80"}]

(* Lines 240-243: the parameters of Page.captureScreenshot. *)
captureScreenshotParams(options) ==
    [format |-> IF options.format = "undefined" THEN "png" ELSE options.format,
     quality |-> options.quality]

(* screenshot(t, options), lines 233-243: getConnection, then the request. *)
ScreenshotCall(t, options) ==
    /\ IF ~isConnected(t)
       THEN ReturnAtOnce("screenshot", t, NotConnectedError)
       ELSE Suspend(calls, [Call("screenshot", t, "reply", connections[t], {}, {})
                               EXCEPT !.options = options])
    /\ UNCHANGED <<connections, connected, channels, connectedTargetId>>

(* Lines 132-133, 152-153: the reply to DOM.getDocument arrives; the
   method sends its query, or throws from its catch block. *)
RootSettled(k, reply) ==
    /\ k.pc = "root"
    /\ IF reply.fails
       THEN Resume(k, reply, Caught(k.op, RequestError(reply)))
       ELSE Suspend(Others(k), [k EXCEPT !.pc = "reply"])
    /\ UNCHANGED <<connections, connected, channels, connectedTargetId>>

(* Lines 116-117. *)
getDocument(reply) ==
    IF reply.fails
    THEN Caught("getDocument", RequestError(reply))
    ELSE Returned("node", {<<"nodeId", ToString(reply.nodeId)>>})

(* querySelector that treats node id 0 as a failure. *)
querySelector_ZeroThrows(reply) ==
    IF reply.fails \/ reply.nodeId = 0
    THEN Caught("querySelector", RequestError(reply))
    ELSE Returned("number", {<<"value", ToString(reply.nodeId)>>})

(* Line 137: nodeId || null. *)
querySelector(reply) ==
    IF reply.fails
    THEN Caught("querySelector", RequestError(reply))
    ELSE IF reply.nodeId = 0
         THEN Returned("null", {})
         ELSE Returned("number", {<<"value", ToString(reply.nodeId)>>})

(* Line 157: nodeIds || []. *)
querySelectorAll(reply) ==
    IF reply.fails
    THEN Caught("querySelectorAll", RequestError(reply))
    ELSE Returned("array", {<<ToString(i), ToString(reply.nodeIds[i])>> :
                                i \in 1..Len(reply.nodeIds)})

(* result[name] = value: a later assignment to the same name replaces the
   earlier one. *)
Assign(result, name, value) ==
    {p \in result : p[1] # name} \cup {<<name, value>>}

(* Lines 176-178: for (i = 0; i < attributes.length; i += 2)
   result[attributes[i]] = attributes[i + 1]; reading past the end of the
   array gives undefined. Indices here are one more than the code's. *)
RECURSIVE AttributeLoop(_, _, _)
AttributeLoop(attributes, i, result) ==
    IF i > Len(attributes)
    THEN result
    ELSE AttributeLoop(attributes, i + 2,
                       Assign(result, attributes[i],
                              IF i + 1 <= Len(attributes) THEN attributes[i + 1]
                                                          ELSE "undefined"))

(* getNodeAttributes with the loop started at the second element. *)
getNodeAttributes_FromSecond(reply) ==
    IF reply.fails
    THEN Caught("getNodeAttributes", RequestError(reply))
    ELSE Returned("object", AttributeLoop(reply.attributes, 2, {}))

(* Lines 172-180. *)
getNodeAttributes(reply) ==
    IF reply.fails
    THEN Caught("getNodeAttributes", RequestError(reply))
    ELSE Returned("object", AttributeLoop(reply.attributes, 1, {}))

(* Lines 195-196. *)
getOuterHTML(reply) ==
    IF reply.fails
    THEN Caught("getOuterHTML", RequestError(reply))
    ELSE Returned(reply.value, {})

(* Lines 211-227: exceptionDetails makes the method throw a plain Error
   inside its own try block, which the catch block wraps like a rejected
   request. *)
evaluate(reply) ==
    IF reply.fails
    THEN Caught("evaluate", RequestError(reply))
    ELSE IF reply.exception
         THEN Caught("evaluate",
                     PlainError(IF reply.text # "" THEN reply.text
                                                   ELSE "JavaScript execution failed"))
         ELSE Returned(reply.value, {})

(* Lines 240-244. *)
screenshot(reply) ==
    IF reply.fails
    THEN Caught("screenshot", RequestError(reply))
    ELSE Returned(reply.value, {})

(* A method that gives up the session when its request failed: the catch
   block clears the flag and deletes the entry. *)
Settled_DropsFailedSession(k, o, reply, r) ==
    /\ k.op = o
    /\ k.pc = "reply"
    /\ Resume(k, reply, r)
    /\ connected' = IF r.kind = "ok" THEN connected
                    ELSE [connected EXCEPT ![k.client] = FALSE]
    /\ connections' = IF r.kind = "ok" THEN connections
                      ELSE [connections EXCEPT ![k.target] = NoConn]
    /\ UNCHANGED <<channels, connectedTargetId>>

(* A reply handed to the method only when no other call waits on the same
   channel: replies served one call per session at a time. *)
Settled_OnePerSession(k, o, reply, r) ==
    /\ k.op = o
    /\ k.pc = "reply"
    /\ \A k2 \in InFlight : k2.client = k.client => k2 = k
    /\ Resume(k, reply, r)
    /\ UNCHANGED <<connections, connected, channels, connectedTargetId>>

(* The reply to a method's last request arrives and the method returns or
   throws r. *)
Settled(k, o, reply, r) ==
    /\ k.op = o
    /\ k.pc = "reply"
    /\ Resume(k, reply, r)
    /\ UNCHANGED <<connections, connected, channels, connectedTargetId>>

GetDocumentSettled(k, reply) == Settled(k, "getDocument", reply, getDocument(reply))

QuerySelectorSettled(k, reply) == Settled(k, "querySelector", reply, querySelector(reply))

QuerySelectorAllSettled(k, reply) ==
    Settled(k, "querySelectorAll", reply, querySelectorAll(reply))

GetNodeAttributesSettled(k, reply) ==
    Settled(k, "getNodeAttributes", reply, getNodeAttributes(reply))

GetOuterHTMLSettled(k, reply) == Settled(k, "getOuterHTML", reply, getOuterHTML(reply))

EvaluateSettled(k, reply) == Settled(k, "evaluate", reply, evaluate(reply))

ScreenshotSettled(k, reply) == Settled(k, "screenshot", reply, screenshot(reply))

(* One caller that awaits each call before making the next: connect,
   operations and disconnect on the page targets. *)
Idle == calls = EmptyBag

NextOps ==
    \/ Idle /\ \E t \in PageTargets : ConnectCall(t) /\ DeviceUntouched
    \/ Idle /\ \E t \in PageTargets : DisconnectCall(t) /\ DeviceUntouched
    \/ Idle /\ \E o \in Ops, t \in PageTargets : OpCall(o, t) /\ DeviceUntouched
    \/ Idle /\ \E t \in PageTargets, options \in ScreenshotOptions :
                  ScreenshotCall(t, options) /\ DeviceUntouched
    \/ \E k \in InFlight : ChannelOpened(k) /\ DeviceUntouched
    \/ \E k \in InFlight : ChannelOpenFailed(k) /\ DeviceUntouched
    \/ \E k \in InFlight, rejected \in EnableOutcomes : EnablesSettled(k, rejected) /\ DeviceUntouched
    \/ \E k \in InFlight, b \in BOOLEAN : CloseSettled(k, b) /\ DeviceUntouched
    \/ \E k \in InFlight, reply \in DocumentReplies : RootSettled(k, reply) /\ DeviceUntouched
    \/ \E k \in InFlight, reply \in DocumentReplies : GetDocumentSettled(k, reply) /\ DeviceUntouched
    \/ \E k \in InFlight, reply \in QuerySelectorReplies : QuerySelectorSettled(k, reply) /\ DeviceUntouched
    \/ \E k \in InFlight, reply \in QuerySelectorAllReplies : QuerySelectorAllSettled(k, reply) /\ DeviceUntouched
    \/ \E k \in InFlight, reply \in AttributesReplies : GetNodeAttributesSettled(k, reply) /\ DeviceUntouched
    \/ \E k \in InFlight, reply \in OuterHTMLReplies : GetOuterHTMLSettled(k, reply) /\ DeviceUntouched
    \/ \E k \in InFlight, reply \in EvaluateReplies : EvaluateSettled(k, reply) /\ DeviceUntouched
    \/ \E k \in InFlight, reply \in ScreenshotReplies : ScreenshotSettled(k, reply) /\ DeviceUntouched

SpecOps == Init /\ [][NextOps]_vars

(* ------------------------------------------------------------------------ *)
(* Sessions that are closed while they are in use                           *)
(* ------------------------------------------------------------------------ *)

(* A request awaited on a channel that has been closed is not answered with
   a result: the reply that resumes call k is a rejection unless the channel
   is open. *)
Deliverable(k, reply) ==
    \/ reply.fails
    \/ k.client \in 1..Len(channels) /\ channels[k.client].state = "open"

(* The operations called here: one that sends two requests and one that
   sends one. *)
SessionOps == {"querySelector", "evaluate"}

(* Overlapping calls of connect, disconnect and the operations, on the page
   targets. *)
NextSession ==
    \/ CanCall /\ \E t \in PageTargets : ConnectCall(t) /\ DeviceUntouched
    \/ CanCall /\ \E t \in PageTargets : DisconnectCall(t) /\ DeviceUntouched
    \/ CanCall /\ \E o \in SessionOps, t \in PageTargets : OpCall(o, t) /\ DeviceUntouched
    \/ \E k \in InFlight : ChannelOpened(k) /\ DeviceUntouched
    \/ \E k \in InFlight : ChannelOpenFailed(k) /\ DeviceUntouched
    \/ \E k \in InFlight, rejected \in EnableOutcomes : EnablesSettled(k, rejected) /\ DeviceUntouched
    \/ \E k \in InFlight, b \in BOOLEAN : CloseSettled(k, b) /\ DeviceUntouched
    \/ \E k \in InFlight, reply \in DocumentReplies :
           Deliverable(k, reply) /\ RootSettled(k, reply) /\ DeviceUntouched
    \/ \E k \in InFlight, reply \in QuerySelectorReplies :
           Deliverable(k, reply) /\ QuerySelectorSettled(k, reply) /\ DeviceUntouched
    \/ \E k \in InFlight, reply \in EvaluateReplies :
           Deliverable(k, reply) /\ EvaluateSettled(k, reply) /\ DeviceUntouched

SpecSession == Init /\ [][NextSession]_vars

(* ------------------------------------------------------------------------ *)
(* Requests that are never answered                                         *)
(* ------------------------------------------------------------------------ *)

(* Overlapping calls of connect, evaluate and getDocument against targets
   that leave some requests without a reply for ever: every Runtime.evaluate
   sent to t1, and the handshake of every connect to w1.  No method of the
   client arms a timer (there is no setTimeout and no race in cdp-client.ts),
   so a call is resumed by its own reply alone. *)
Hung(k) ==
    \/ k.op = "evaluate" /\ k.target = "t1"
    \/ k.op = "connect" /\ k.target = "w1"

HungOps == {"connect", "evaluate", "getDocument"}

(* Some reply arrives for the call k. *)
ReplyArrives(k) ==
    \/ ChannelOpened(k)
    \/ ChannelOpenFailed(k)
    \/ \E rejected \in EnableOutcomes : EnablesSettled(k, rejected)
    \/ \E reply \in EvaluateReplies : EvaluateSettled(k, reply)
    \/ \E reply \in DocumentReplies : GetDocumentSettled(k, reply)

(* A reply arrives for a call of method o on target t that is answered. *)
Answered(o, t) ==
    \E k \in InFlight :
        k.op = o /\ k.target = t /\ ~Hung(k) /\ ReplyArrives(k) /\ DeviceUntouched

NextHung ==
    \/ CanCall /\ \E t \in Targets : ConnectCall(t) /\ DeviceUntouched
    \/ CanCall /\ \E o \in HungOps \ {"connect"}, t \in PageTargets :
                     OpCall(o, t) /\ DeviceUntouched
    \/ \E o \in HungOps, t \in Targets : Answered(o, t)

(* The replies that do arrive are handed to the calls that await them. *)
SpecHung ==
    /\ Init
    /\ [][NextHung]_vars
    /\ \A o \in HungOps, t \in Targets : WF_vars(Answered(o, t))

(* ------------------------------------------------------------------------ *)
(* Tool handlers (tools/dom/index.ts)                                       *)
(*                                                                          *)
(* A handler is an async function that awaits calls of the client inside a  *)
(* try block.  Its locals are a record in `calls` like those of any other   *)
(* call; its pc names the call it makes next or awaits.  The handler        *)
(* resumes in the microtask that follows the return of the call it awaits:  *)
(* here that is the step after the return, and no other step is enabled in  *)
(* between.                                                                 *)
(*                                                                          *)
(* tools/dom/index.ts holds versions of the module: electron_execute and   *)
(* electron_reset over ensureConnected (lines 1-227 and again, with the     *)
(* same handlers, lines 228-421), and the tools that take a target id       *)
(* (lines 422-761).  They are modelled over one client; the behaviours of   *)
(* each version are those in which only its own tools are called.          *)
(* ------------------------------------------------------------------------ *)

TargetTools == {"connect_to_electron_target", "get_dom_tree", "query_selector",
                "query_selector_all", "execute_javascript", "take_electron_screenshot"}

SessionTools == {"electron_execute", "electron_reset"}

(* The tools over the device layer: tools/ui, tools/hotkey, tools/permissions *)
UiTools == {"get_mouse_position", "move_mouse", "click", "double_click", "drag",
            "type_text", "press_key", "take_screenshot", "get_screen_size"}
HotkeyTools == {"trigger_hotkey", "trigger_common_macos_hotkey", "simulate_app_shortcut",
                "send_key_sequence"}
PermissionTools == {"check_permission", "check_all_permissions",
                    "get_permission_instructions", "request_permission"}
NativeTools == UiTools \cup HotkeyTools \cup PermissionTools

ToolNames == TargetTools \cup SessionTools \cup {"list_electron_targets"} \cup NativeTools

(* The pc of a handler that is about to call, or awaits, method o. *)
Stage(o) == "await " \o o

(* The client method each handler calls first. *)
FirstCall ==
    [connect_to_electron_target |-> "connect",
     get_dom_tree |-> "getDocument",
     query_selector |-> "querySelector",
     query_selector_all |-> "querySelectorAll",
     execute_javascript |-> "evaluate",
     take_electron_screenshot |-> "screenshot",
     list_electron_targets |-> "listTargets",
     electron_execute |-> "ensureConnected",
     request_permission |-> "requestPermission"]

(* {content: [{type: 'text', text}]}, with isError: true when flagged. *)
ToolResult(text, isError) ==
    [kind |-> "ToolResult", message |-> "", originalError |-> "", value |-> text,
     props |-> IF isError THEN {<<"isError", "true">>} ELSE {}]

(* The catch block of every handler but electron_reset's:
   text: `Error: ${error.message}`, isError: true *)
(* The catch blocks without their isError flag *)
ErrorResult_Unflagged(error) == ToolResult("Error: " \o error.message, FALSE)

ErrorResult(error) == ToolResult("Error: " \o error.message, TRUE)

(* The catch block of electron_reset (lines 399-409). *)
ResetFailedResult(error) ==
    ToolResult("Connection reset. Reconnect failed: " \o error.message, TRUE)

Handlers == {h \in InFlight : h.op \in ToolNames}

ClientCalls == {k \in InFlight : k.op \notin ToolNames}

(* A call of the client returned or threw in the last step and a handler
   awaits it. *)
HandlerDue == Handlers # {} /\ returned.op \notin ({"none"} \cup ToolNames)

(* Handler h is about to call method o. *)
ReadyToCall(h, o) ==
    /\ h \in Handlers
    /\ h.pc = Stage(o)
    /\ returned = NoReturn
    /\ ClientCalls = {}

(* The handler returns `result`. *)
Finish(h, result) ==
    /\ calls' = Others(h)
    /\ returned' = Outcome(h.op, h.target, result, TRUE, 0, {}, returned.reply)

(* The handler goes on to call method o on target t. *)
Proceed(h, o, t) ==
    /\ calls' = Others(h) (+) SetToBag({[h EXCEPT !.pc = Stage(o), !.target = t]})
    /\ returned' = NoReturn

(* The first run of a handler up to its first call of the client. *)
ToolCall(tool, t) ==
    /\ tool \in DOMAIN FirstCall
    /\ calls' = calls (+) SetToBag({Call(tool, t, Stage(FirstCall[tool]), 0, {}, {})})
    /\ returned' = NoReturn
    /\ UNCHANGED <<connections, connected, channels, connectedTargetId>>

(* A handler whose whole try block is one awaited call: `text` on success,
   the catch block otherwise. *)
SingleCallResumes(h, tool, text) ==
    /\ h.op = tool
    /\ IF returned.result.kind = "ok"
       THEN Finish(h, ToolResult(text, FALSE))
       ELSE Finish(h, ErrorResult(returned.result))
    /\ UNCHANGED <<connections, connected, channels, connectedTargetId>>

(* connect_to_electron_target, lines 488-510 *)
ConnectToTargetResumes(h) ==
    SingleCallResumes(h, "connect_to_electron_target", "Successfully connected to target")

(* get_dom_tree, lines 523-545: JSON.stringify(document) *)
GetDOMTreeResumes(h) ==
    SingleCallResumes(h, "get_dom_tree", "{nodeId: 1}")

(* execute_javascript, lines 680-700: JSON.stringify({result}) *)
ExecuteJavaScriptResumes(h) ==
    SingleCallResumes(h, "execute_javascript", "{result: " \o returned.result.value \o "}")

(* take_electron_screenshot, lines 722-747: the data as image content *)
TakeElectronScreenshotResumes(h) ==
    SingleCallResumes(h, "take_electron_screenshot", returned.result.value)

(* list_electron_targets, lines 439-475 *)
ListElectronTargetsResumes(h) ==
    SingleCallResumes(h, "list_electron_targets", returned.result.value)

(* query_selector, lines 558-605: querySelector, then for a node found
   getNodeAttributes and getOuterHTML. *)
QuerySelectorResumes(h) ==
    /\ h.op = "query_selector"
    /\ IF returned.result.kind # "ok"
       THEN Finish(h, ErrorResult(returned.result))
       ELSE CASE returned.op = "querySelector" ->
                    IF returned.result.value = "null"
                    THEN Finish(h, ToolResult("No element found matching selector", FALSE))
                    ELSE Proceed(h, "getNodeAttributes", h.target)
              [] returned.op = "getNodeAttributes" ->
                    Proceed(h, "getOuterHTML", h.target)
              [] OTHER ->
                    Finish(h, ToolResult("{nodeId, selector, attributes, outerHTML}", FALSE))
    /\ UNCHANGED <<connections, connected, channels, connectedTargetId>>

(* The nodes a selector can match, and the raw attribute array the target
   holds for each. *)
NodeIds == {5, 6}

DomAttributes == [n \in NodeIds |-> IF n = 5 THEN <<"id", "x">> ELSE <<"x", "id", "id", "id">>]

(* The array of node ids that querySelectorAll returned. *)
ResultIds(r) ==
    [i \in 1..Cardinality(r.props) |->
        CHOOSE n \in NodeIds : ToString(n) = (CHOOSE p \in r.props : p[1] = ToString(i))[2]]

(* dom/index.ts:634: nodeIds.slice(0, 10) *)
ShownLimit == 10

Shown(ids) == SubSeq(ids, 1, IF Len(ids) < ShownLimit THEN Len(ids) ELSE ShownLimit)

(* The slot of Promise.all for the closure of node id n while its promise is
   pending, and once the closure has returned {nodeId, attributes}. *)
PendingDetail(n) == [nodeId |-> n, attributes |-> {}, done |-> FALSE]

Detail(n, attributes) == [nodeId |-> n, attributes |-> attributes, done |-> TRUE]

(* The closure that called getNodeAttributes with node id n. *)
ClosureOf(details, n) == CHOOSE i \in 1..Len(details) : details[i].nodeId = n

(* The results collected in the order in which the closures return. *)
Collect_ArrivalOrder(details, i, d) ==
    [details EXCEPT ![CHOOSE j \in 1..Len(details) :
                         ~details[j].done /\ \A l \in 1..(j - 1) : details[l].done] = d]

(* Promise.all (dom/index.ts:633-638): the result of the i-th promise is the
   i-th element of the array, whenever it settles. *)
Collect(details, i, d) == [details EXCEPT ![i] = d]

(* JSON.stringify of an attributes object on one line, the names in the order
   of AttrOrder; a property whose value is undefined is left out. *)
AttrOrder == <<"id", "x">>

RECURSIVE AttributesText(_, _)
AttributesText(props, j) ==
    IF j > Len(AttrOrder)
    THEN ""
    ELSE (IF \E p \in props : p[1] = AttrOrder[j] /\ p[2] # "undefined"
          THEN "\"" \o AttrOrder[j] \o "\": \""
                  \o (CHOOSE p \in props : p[1] = AttrOrder[j])[2] \o "\" "
          ELSE "")
         \o AttributesText(props, j + 1)

RECURSIVE ElementsText(_, _)
ElementsText(details, i) ==
    IF i > Len(details)
    THEN ""
    ELSE "{\"nodeId\": " \o ToString(details[i].nodeId) \o ", \"attributes\": { "
            \o AttributesText(details[i].attributes, 1) \o "}} "
            \o ElementsText(details, i + 1)

(* dom/index.ts:644-652: JSON.stringify({count, showing, elements}) *)
DetailsText(nodeIds, details) ==
    "{\"count\": " \o ToString(Len(nodeIds)) \o ", \"showing\": "
        \o ToString(Len(details)) \o ", \"elements\": [ " \o ElementsText(details, 1) \o "]}"

(* query_selector_all, lines 617-668: querySelectorAll, then for a
   non-empty answer one closure per node id (the first ten), each calling
   getNodeAttributes before Promise.all is awaited; a closure that returns
   fills its slot, a call that throws rejects Promise.all at once. *)
QuerySelectorAllResumes(h) ==
    /\ h.op = "query_selector_all"
    /\ IF returned.result.kind # "ok"
       THEN Finish(h, ErrorResult(returned.result))
       ELSE IF returned.op = "querySelectorAll"
            THEN IF returned.result.props = {}
                 THEN Finish(h, ToolResult("No elements found matching selector", FALSE))
                 ELSE IF ~isConnected(h.target)
                      THEN Finish(h, ErrorResult(NotConnectedError))
                      ELSE /\ calls' =
                                (Others(h)
                                   (+) SetToBag({[h EXCEPT
                                         !.pc = "details",
                                         !.nodeIds = ResultIds(returned.result),
                                         !.details =
                                            [i \in 1..Len(Shown(ResultIds(returned.result))) |->
                                                PendingDetail(ResultIds(returned.result)[i])]]}))
                                   (+) SetToBag({[Call("getNodeAttributes", h.target, "reply",
                                                       connections[h.target], {}, {})
                                                     EXCEPT !.nodeId =
                                                        ResultIds(returned.result)[i]] :
                                                   i \in 1..Len(Shown(ResultIds(returned.result)))})
                           /\ returned' = NoReturn
            ELSE IF \A i \in 1..Len(h.details) :
                       Collect(h.details, ClosureOf(h.details, returned.nodeId),
                               Detail(returned.nodeId, returned.result.props))[i].done
                 THEN Finish(h, ToolResult(
                         DetailsText(h.nodeIds,
                                     Collect(h.details, ClosureOf(h.details, returned.nodeId),
                                             Detail(returned.nodeId, returned.result.props))),
                         FALSE))
                 ELSE /\ calls' = Others(h) (+) SetToBag({[h EXCEPT !.details =
                                      Collect(h.details, ClosureOf(h.details, returned.nodeId),
                                              Detail(returned.nodeId, returned.result.props))]})
                      /\ returned' = NoReturn
    /\ UNCHANGED <<connections, connected, channels, connectedTargetId>>

(* What the target answers to DOM.getAttributes for the node id of call k,
   when the model tracks the node id: the attributes of that node. *)
AnswersNode(k, reply) ==
    k.nodeId \in NodeIds => (reply.fails \/ reply.attributes = DomAttributes[k.nodeId])

(* listTargets() called on its own, cdp-client.ts:24-41 *)
ListTargetsCall ==
    /\ Suspend(calls, Call("listTargets", NoTarget, "list", 0, {}, {}))
    /\ UNCHANGED <<connections, connected, channels, connectedTargetId>>

(* Lines 26-34: CDP.List answers; the targets are returned in its order. *)
ListTargetsSettled(k, targets) ==
    /\ k.pc = "list"
    /\ Return(k, Returned("targets", {<<ToString(i), targets[i]>> : i \in 1..Len(targets)}))
    /\ UNCHANGED <<connections, connected, channels, connectedTargetId>>

(* What makes the try block of lines 25-34 throw: CDP.List rejects because
   the endpoint is unreachable, or it answers something that is not an array
   of targets and targets.map throws. *)
DiscoveryFailures == {"connect ECONNREFUSED", "targets.map is not a function"}

(* Lines 36-39: the message is fixed, the cause goes into originalError. *)
ListTargetsError(cause) == [ListFailedError EXCEPT !.originalError = cause]

(* listTargets dropping the sessions of the client when discovery fails. *)
ListTargetsFailed_DropsSessions(k, cause) ==
    /\ k.pc = "list"
    /\ Return(k, ListTargetsError(cause))
    /\ connections' = [t \in Targets |-> NoConn]
    /\ UNCHANGED <<connected, channels, connectedTargetId>>

(* Lines 35-40. *)
ListTargetsFailed(k, cause) ==
    /\ k.pc = "list"
    /\ Return(k, ListTargetsError(cause))
    /\ UNCHANGED <<connections, connected, channels, connectedTargetId>>

(* The targetId of the session ensureConnected returned. *)
SessionTarget(r) == (CHOOSE p \in r.props : p[1] = "targetId")[2]

(* electron_execute, lines 299-359: ensureConnected, then evaluate on the
   session's target; a value with __error is reported as an error, any other
   value as text. *)
ElectronExecuteResumes(h) ==
    /\ h.op = "electron_execute"
    /\ IF returned.result.kind # "ok"
       THEN Finish(h, ErrorResult(returned.result))
       ELSE IF returned.op = "ensureConnected"
            THEN Proceed(h, "evaluate", SessionTarget(returned.result))
            ELSE IF returned.result.value = "{__error}"
                 THEN Finish(h, ToolResult("Error: boom\n", TRUE))
                 ELSE Finish(h, ToolResult(returned.result.value, FALSE))
    /\ UNCHANGED <<connections, connected, channels, connectedTargetId>>

(* cdpClient = null; connectedTargetId = null (lines 381-382, 401-402): the
   next ensureConnected creates a client with an empty mapping. *)
ResetState ==
    /\ connections' = [t \in Targets |-> NoConn]
    /\ connectedTargetId' = NoTarget

(* electron_reset, lines 370-380: the remembered target is disconnected
   first, when there is one. *)
ElectronResetCall ==
    /\ IF connectedTargetId # NoTarget
       THEN /\ calls' = calls (+) SetToBag({Call("electron_reset", connectedTargetId,
                                                 Stage("disconnect"), 0, {}, {})})
            /\ UNCHANGED <<connections, connectedTargetId>>
       ELSE /\ calls' = calls (+) SetToBag({Call("electron_reset", NoTarget,
                                                 Stage("ensureConnected"), 0, {}, {})})
            /\ ResetState
    /\ returned' = NoReturn
    /\ UNCHANGED <<connected, channels>>

(* electron_reset, lines 381-409. *)
ElectronResetResumes(h) ==
    /\ h.op = "electron_reset"
    /\ IF returned.op = "disconnect"
       THEN /\ ResetState
            /\ Proceed(h, "ensureConnected", NoTarget)
       ELSE IF returned.result.kind = "ok"
            THEN /\ Finish(h, ToolResult("Connection reset successfully. Connected to target: "
                                            \o SessionTarget(returned.result), FALSE))
                 /\ UNCHANGED <<connections, connectedTargetId>>
            ELSE /\ ResetState
                 /\ Finish(h, ResetFailedResult(returned.result))
    /\ UNCHANGED <<connected, channels>>

(* One caller of the tools that awaits each result before the next call. *)
NextTools ==
    \/ Idle /\ \E tool \in TargetTools, t \in PageTargets : ToolCall(tool, t) /\ DeviceUntouched
    \/ Idle /\ \E tool \in {"list_electron_targets", "electron_execute"} :
                  ToolCall(tool, NoTarget) /\ DeviceUntouched
    \/ Idle /\ ElectronResetCall /\ DeviceUntouched
    \/ \E h \in Handlers : ReadyToCall(h, "connect") /\ ConnectCall(h.target) /\ DeviceUntouched
    \/ \E h \in Handlers : ReadyToCall(h, "disconnect") /\ DisconnectCall(h.target) /\ DeviceUntouched
    \/ \E h \in Handlers : ReadyToCall(h, "ensureConnected") /\ EnsureConnectedCall /\ DeviceUntouched
    \/ \E h \in Handlers : ReadyToCall(h, "listTargets") /\ ListTargetsCall /\ DeviceUntouched
    \/ \E h \in Handlers, o \in Ops : ReadyToCall(h, o) /\ OpCall(o, h.target) /\ DeviceUntouched
    \/ HandlerDue /\ \E h \in Handlers : ConnectToTargetResumes(h) /\ DeviceUntouched
    \/ HandlerDue /\ \E h \in Handlers : GetDOMTreeResumes(h) /\ DeviceUntouched
    \/ HandlerDue /\ \E h \in Handlers : QuerySelectorResumes(h) /\ DeviceUntouched
    \/ HandlerDue /\ \E h \in Handlers : QuerySelectorAllResumes(h) /\ DeviceUntouched
    \/ HandlerDue /\ \E h \in Handlers : ExecuteJavaScriptResumes(h) /\ DeviceUntouched
    \/ HandlerDue /\ \E h \in Handlers : TakeElectronScreenshotResumes(h) /\ DeviceUntouched
    \/ HandlerDue /\ \E h \in Handlers : ListElectronTargetsResumes(h) /\ DeviceUntouched
    \/ HandlerDue /\ \E h \in Handlers : ElectronExecuteResumes(h) /\ DeviceUntouched
    \/ HandlerDue /\ \E h \in Handlers : ElectronResetResumes(h) /\ DeviceUntouched
    \/ ~HandlerDue /\ \E k \in ClientCalls : ChannelOpened(k) /\ DeviceUntouched
    \/ ~HandlerDue /\ \E k \in ClientCalls : ChannelOpenFailed(k) /\ DeviceUntouched
    \/ ~HandlerDue /\ \E k \in ClientCalls, rejected \in EnableOutcomes : EnablesSettled(k, rejected) /\ DeviceUntouched
    \/ ~HandlerDue /\ \E k \in ClientCalls, b \in BOOLEAN : CloseSettled(k, b) /\ DeviceUntouched
    \/ ~HandlerDue /\ \E k \in ClientCalls, targets \in DiscoveryResults : ListSucceeded(k, targets) /\ DeviceUntouched
    \/ ~HandlerDue /\ \E k \in ClientCalls : ListFailed(k) /\ DeviceUntouched
    \/ ~HandlerDue /\ \E k \in ClientCalls, targets \in DiscoveryResults : ListTargetsSettled(k, targets) /\ DeviceUntouched
    \/ ~HandlerDue /\ \E k \in ClientCalls, cause \in DiscoveryFailures : ListTargetsFailed(k, cause) /\ DeviceUntouched
    \/ ~HandlerDue /\ \E k \in ClientCalls, reply \in DocumentReplies : RootSettled(k, reply) /\ DeviceUntouched
    \/ ~HandlerDue /\ \E k \in ClientCalls, reply \in DocumentReplies : GetDocumentSettled(k, reply) /\ DeviceUntouched
    \/ ~HandlerDue /\ \E k \in ClientCalls, reply \in QuerySelectorReplies : QuerySelectorSettled(k, reply) /\ DeviceUntouched
    \/ ~HandlerDue /\ \E k \in ClientCalls, reply \in QuerySelectorAllReplies : QuerySelectorAllSettled(k, reply) /\ DeviceUntouched
    \/ ~HandlerDue /\ \E k \in ClientCalls, reply \in AttributesReplies :
                        AnswersNode(k, reply) /\ GetNodeAttributesSettled(k, reply) /\ DeviceUntouched
    \/ ~HandlerDue /\ \E k \in ClientCalls, reply \in OuterHTMLReplies : GetOuterHTMLSettled(k, reply) /\ DeviceUntouched
    \/ ~HandlerDue /\ \E k \in ClientCalls, reply \in EvaluateReplies : EvaluateSettled(k, reply) /\ DeviceUntouched
    \/ ~HandlerDue /\ \E k \in ClientCalls, reply \in ScreenshotReplies : ScreenshotSettled(k, reply) /\ DeviceUntouched

SpecTools == Init /\ [][NextTools]_vars

(* ------------------------------------------------------------------------ *)
(* The device layer: PermissionsManager (lib/permissions.ts) and            *)
(* AccessibilityManager over robotjs                                        *)
(* ------------------------------------------------------------------------ *)

(* new AccessibilityError(message, {originalError}) *)
AccessibilityError(m, orig) ==
    [kind |-> "AccessibilityError", message |-> m, originalError |-> orig,
     value |-> "", props |-> {}]

(* permissions.ts:24-41: the status the OS reports; 'not-determined' when
   the read throws. *)
checkPermission(c) ==
    IF permissions[c] = Unreadable THEN "not-determined" ELSE permissions[c]

(* permissions.ts:141-179, the first line of each text (the numbered steps
   that follow it are left out). *)
getPermissionInstructions(c) ==
    IF c = "accessibility" THEN "To grant Accessibility permission:"
    ELSE "To grant Screen Recording permission:"

(* The errors of verifyPermissions() and of the test in takeScreenshot. *)
NotGranted(c) ==
    AccessibilityError((IF c = "accessibility"
                        THEN "Accessibility permission not granted. "
                        ELSE "Screen Recording permission not granted. ")
                          \o getPermissionInstructions(c), "")

Methods == {"getMousePosition", "moveMouse", "click", "doubleClick", "drag", "typeText",
            "pressKey", "takeScreenshot", "getScreenSize", "getPixelColor"}

(* The gates with takeScreenshot left ungated. *)
Gate_ScreenshotUngated ==
    [m \in Methods |->
        IF m \in {"moveMouse", "click", "doubleClick", "drag", "typeText", "pressKey"}
        THEN "accessibility" ELSE "none"]

(* The capability each method tests before it touches the device. *)
Gate ==
    [m \in Methods |->
        IF m \in {"moveMouse", "click", "doubleClick", "drag", "typeText", "pressKey"}
        THEN "accessibility"
        ELSE IF m = "takeScreenshot" THEN "screen-capture" ELSE "none"]

(* The robotjs calls of each method, in order; `at` tells whether the
   optional coordinates (for takeScreenshot: the region) were given. *)
RobotCalls(m, at) ==
    CASE m = "getMousePosition" -> <<"getMousePos">>
      [] m = "moveMouse" -> <<"moveMouse">>
      [] m \in {"click", "doubleClick"} ->
            IF at THEN <<"moveMouse", "mouseClick">> ELSE <<"mouseClick">>
      [] m = "drag" -> <<"moveMouse", "mouseToggle", "dragMouse", "mouseToggle">>
      [] m = "typeText" -> <<"typeString">>
      [] m = "pressKey" -> <<"keyTap">>
      [] m = "takeScreenshot" ->
            IF at THEN <<"screen.capture">> ELSE <<"getScreenSize", "screen.capture">>
      [] m = "getScreenSize" -> <<"getScreenSize">>
      [] m = "getPixelColor" -> <<"getPixelColor">>

(* The robotjs calls that read the screen *)
Capture == {"screen.capture"}

(* robot.keyTap(key, modifiers) of a key combination that the model tells
   from the others: the combinations of hotkeyMap and the keys of a key
   sequence; the plain "keyTap" stands for the key "a". *)
KeyTap(combo) == "keyTap " \o combo

(* The robotjs calls d of a pressKey, with the combination it was given. *)
Keyed(d, combo) == [i \in 1..Len(d) |-> IF d[i] = "keyTap" THEN KeyTap(combo) ELSE d[i]]

(* The message of the error each method throws when a robotjs call throws,
   for the arguments (1, 2), (3, 4), "hi" and "a". *)
FailedMessage(m, at) ==
    CASE m = "getMousePosition" -> "Failed to get mouse position"
      [] m = "moveMouse" -> "Failed to move mouse to (1, 2)"
      [] m = "click" -> IF at THEN "Failed to click at (1, 2)"
                        ELSE "Failed to click at (undefined, undefined)"
      [] m = "doubleClick" -> "Failed to double click"
      [] m = "drag" -> "Failed to drag from (1, 2) to (3, 4)"
      [] m = "typeText" -> "Failed to type text: \"hi\""
      [] m = "pressKey" -> "Failed to press key: a"
      [] m = "takeScreenshot" -> "Failed to take screenshot"
      [] m = "getScreenSize" -> "Failed to get screen size"
      [] m = "getPixelColor" -> "Failed to get pixel color at (1, 2)"

(* What each method returns *)
MethodValue(m) ==
    CASE m = "getMousePosition" -> Returned("{\n  \"x\": 1,\n  \"y\": 2\n}", {})
      [] m = "getScreenSize" -> Returned("{\n  \"width\": 800,\n  \"height\": 600\n}", {})
      [] m = "takeScreenshot" -> Returned("base64", {})
      [] m = "getPixelColor" -> Returned("ffffff", {})
      [] OTHER -> ReturnedVoid

(* What robotjs answered in a step: a call of it threw, or none did. *)
RobotThrew == [NoReply EXCEPT !.fails = TRUE, !.error = "robot failed"]

(* One call of method m of AccessibilityManager: its outcome, the robotjs
   calls it made and what robotjs answered.  The capability is tested first;
   failAt is the position of the robotjs call that throws (0: none does). *)
ManagerOutcome(m, at, failAt) ==
    IF Gate[m] # "none" /\ checkPermission(Gate[m]) # "authorized"
    THEN [result |-> NotGranted(Gate[m]), device |-> <<>>, reply |-> NoReply]
    ELSE IF failAt \in 1..Len(RobotCalls(m, at))
         THEN [result |-> AccessibilityError(FailedMessage(m, at), RobotThrew.error),
               device |-> SubSeq(RobotCalls(m, at), 1, failAt), reply |-> RobotThrew]
         ELSE [result |-> MethodValue(m), device |-> RobotCalls(m, at), reply |-> NoReply]

(* A call of o that ran to its end in one step, answered `reply` by robotjs. *)
ReturnAfter(o, t, reply, r) ==
    /\ calls' = calls
    /\ returned' = Outcome(o, t, r, FALSE, 0, {}, reply)

FailPoints == 0..Len(RobotCalls("drag", TRUE))

(* The name under which a direct call of method m is recorded (click and
   drag are names of tools as well). *)
ManagerOp(m) == "accessibilityManager." \o m

(* A caller calls method m of the manager and awaits it: the method has no
   await of its own, so it runs to its end in one step. *)
ManagerCall(m, at, failAt) ==
    /\ failAt <= Len(RobotCalls(m, at))
    /\ device' = ManagerOutcome(m, at, failAt).device
    /\ ReturnAfter(ManagerOp(m), NoTarget, ManagerOutcome(m, at, failAt).reply,
                   ManagerOutcome(m, at, failAt).result)
    /\ UNCHANGED <<connections, connected, channels, connectedTargetId, permissions>>

(* The user, or the OS, changes the status of a capability. *)
StatusChanges(c, st) ==
    /\ st # permissions[c]
    /\ permissions' = [permissions EXCEPT ![c] = st]
    /\ device' = <<>>
    /\ returned' = NoReturn
    /\ UNCHANGED <<connections, connected, channels, connectedTargetId, calls>>

(* ---- PermissionsManager.requestPermission, permissions.ts:60-99 ---- *)

(* permissions.ts:75-91: the OS prompt of each capability *)
Prompt(c) ==
    IF c = "accessibility" THEN "askForAccessibilityAccess" ELSE "askForScreenCaptureAccess"

(* requestPermission that prompts whatever the current status is. *)
RequestPermissionCall_AlwaysPrompts(c) ==
    /\ device' = <<Prompt(c)>>
    /\ Suspend(calls, Call("requestPermission", c, "asking", 0, {}, {}))
    /\ UNCHANGED <<connections, connected, channels, connectedTargetId, permissions>>

(* Lines 62-91: the current status is returned at once unless it is
   'not-determined'; then the prompt is invoked and awaited. *)
RequestPermissionCall(c) ==
    /\ IF checkPermission(c) \in {"authorized", "denied", "restricted"}
       THEN /\ device' = <<>>
            /\ ReturnAtOnce("requestPermission", c, Returned(checkPermission(c), {}))
       ELSE /\ device' = <<Prompt(c)>>
            /\ Suspend(calls, Call("requestPermission", c, "asking", 0, {}, {}))
    /\ UNCHANGED <<connections, connected, channels, connectedTargetId, permissions>>

(* Lines 93-98: the prompt has settled: the status is read again, or
   'denied' is returned when the prompt rejected. *)
AskSettled(k, rejected) ==
    /\ k.pc = "asking"
    /\ device' = <<>>
    /\ Return(k, Returned(IF rejected THEN "denied" ELSE checkPermission(k.target), {}))
    /\ UNCHANGED <<connections, connected, channels, connectedTargetId, permissions>>

(* ---- tools/ui: each handler awaits one method of the manager ---- *)

UiMethod ==
    [get_mouse_position |-> "getMousePosition", move_mouse |-> "moveMouse",
     click |-> "click", double_click |-> "doubleClick", drag |-> "drag",
     type_text |-> "typeText", press_key |-> "pressKey",
     take_screenshot |-> "takeScreenshot", get_screen_size |-> "getScreenSize"]

(* The text of each handler's success result, for the arguments above. *)
UiText(tool, at) ==
    CASE tool = "move_mouse" -> "Mouse moved to (1, 2)"
      [] tool = "click" -> "Clicked left button" \o (IF at THEN " at (1, 2)" ELSE "")
      [] tool = "double_click" -> "Double clicked" \o (IF at THEN " at (1, 2)" ELSE "")
      [] tool = "drag" -> "Dragged from (1, 2) to (3, 4)"
      [] tool = "type_text" -> "Typed: \"hi\""
      [] tool = "press_key" -> "Pressed: a"
      [] OTHER -> MethodValue(UiMethod[tool]).value

(* {content: [{type: 'image', data, mimeType: 'image/png'}]} *)
ImageResult(data) ==
    [kind |-> "ToolResult", message |-> "", originalError |-> "", value |-> data,
     props |-> {<<"mimeType", "image/png">>}]

UiToolCall(tool, at, failAt) ==
    /\ failAt <= Len(RobotCalls(UiMethod[tool], at))
    /\ device' = ManagerOutcome(UiMethod[tool], at, failAt).device
    /\ ReturnAfter(tool, NoTarget, ManagerOutcome(UiMethod[tool], at, failAt).reply,
                   IF ManagerOutcome(UiMethod[tool], at, failAt).result.kind # "ok"
                   THEN ErrorResult(ManagerOutcome(UiMethod[tool], at, failAt).result)
                   ELSE IF tool = "take_screenshot"
                        THEN ImageResult(MethodValue("takeScreenshot").value)
                        ELSE ToolResult(UiText(tool, at), FALSE))
    /\ UNCHANGED <<connections, connected, channels, connectedTargetId, permissions>>

(* ---- tools/hotkey ---- *)

(* trigger_hotkey (key "a", modifiers ["command"]) and simulate_app_shortcut
   (shortcut "Save"): one pressKey. *)
PressKeyToolCall(tool, failAt) ==
    /\ tool \in {"trigger_hotkey", "simulate_app_shortcut"}
    /\ failAt <= 1
    /\ device' = ManagerOutcome("pressKey", TRUE, failAt).device
    /\ ReturnAfter(tool, NoTarget, ManagerOutcome("pressKey", TRUE, failAt).reply,
                   IF ManagerOutcome("pressKey", TRUE, failAt).result.kind # "ok"
                   THEN ErrorResult(ManagerOutcome("pressKey", TRUE, failAt).result)
                   ELSE ToolResult(IF tool = "trigger_hotkey"
                                   THEN "Triggered hotkey: command+a"
                                   ELSE "Simulated shortcut: Save", FALSE))
    /\ UNCHANGED <<connections, connected, channels, connectedTargetId, permissions>>

(* hotkeyMap (hotkey/index.ts:78-90): modifiers and key of each name. *)
hotkeyMap ==
    [spotlight |-> "command+space",
     mission_control |-> "control+up",
     app_switcher |-> "command+tab",
     screenshot_full |-> "command+shift+3",
     screenshot_selection |-> "command+shift+4",
     screenshot_window |-> "command+shift+4",
     show_desktop |-> "f3",
     lock_screen |-> "command+control+q",
     force_quit |-> "command+option+escape",
     emoji_picker |-> "command+control+space",
     character_viewer |-> "command+control+space"]

(* The names of hotkeyMap and a name it does not hold *)
KnownHotkeys == DOMAIN hotkeyMap
HotkeyNames == KnownHotkeys \cup {"bogus"}

(* trigger_common_macos_hotkey going on to the timer and the space key
   whatever the first pressKey did. *)
TriggerCommonHotkeyCall_SpaceAnyway(hotkey, failAt) ==
    /\ failAt <= 1
    /\ hotkey \in DOMAIN hotkeyMap
    /\ device' = Keyed(ManagerOutcome("pressKey", TRUE, failAt).device, hotkeyMap[hotkey])
    /\ IF hotkey = "screenshot_window"
       THEN Suspend(calls, Call("trigger_common_macos_hotkey", hotkey,
                                "await timeout", 0, {}, {}))
       ELSE ReturnAtOnce("trigger_common_macos_hotkey", hotkey,
                         ToolResult("Triggered " \o hotkey \o " hotkey", FALSE))
    /\ UNCHANGED <<connections, connected, channels, connectedTargetId, permissions>>

(* trigger_common_macos_hotkey up to its return or to the timer that
   screenshot_window awaits after its first pressKey. *)
TriggerCommonHotkeyCall(hotkey, failAt) ==
    /\ failAt <= 1
    /\ IF hotkey \notin KnownHotkeys
       THEN /\ failAt = 0
            /\ device' = <<>>
            /\ ReturnAtOnce("trigger_common_macos_hotkey", hotkey,
                            ToolResult("Unknown hotkey: " \o hotkey, TRUE))
       ELSE /\ device' = Keyed(ManagerOutcome("pressKey", TRUE, failAt).device,
                                hotkeyMap[hotkey])
            /\ IF ManagerOutcome("pressKey", TRUE, failAt).result.kind # "ok"
               THEN ReturnAfter("trigger_common_macos_hotkey", hotkey,
                                ManagerOutcome("pressKey", TRUE, failAt).reply,
                                ErrorResult(ManagerOutcome("pressKey", TRUE, failAt).result))
               ELSE IF hotkey = "screenshot_window"
                    THEN Suspend(calls, Call("trigger_common_macos_hotkey", hotkey,
                                             "await timeout", 0, {}, {}))
                    ELSE ReturnAtOnce("trigger_common_macos_hotkey", hotkey,
                                      ToolResult("Triggered " \o hotkey \o " hotkey", FALSE))
    /\ UNCHANGED <<connections, connected, channels, connectedTargetId, permissions>>

(* hotkey/index.ts:108-111 after the 100 ms timer: the space key is pressed *)
ScreenshotWindowTimeout(h, failAt) ==
    /\ h.op = "trigger_common_macos_hotkey"
    /\ h.pc = "await timeout"
    /\ failAt <= 1
    /\ device' = Keyed(ManagerOutcome("pressKey", FALSE, failAt).device, "space")
    /\ Resume(h, ManagerOutcome("pressKey", FALSE, failAt).reply,
              IF ManagerOutcome("pressKey", FALSE, failAt).result.kind # "ok"
              THEN ErrorResult(ManagerOutcome("pressKey", FALSE, failAt).result)
              ELSE ToolResult("Triggered " \o h.target \o " hotkey", FALSE))
    /\ UNCHANGED <<connections, connected, channels, connectedTargetId, permissions>>

(* send_key_sequence: the steps of a sequence, each with or without a delay
   after its key press. *)
MaxSteps == 2

KeySequences == UNION {[1..n -> BOOLEAN] : n \in 0..MaxSteps}

(* The first step from i on that has a delay, or Len(seq) + 1. *)
NextDelay(seq, i) ==
    IF \E j \in i..Len(seq) : seq[j]
    THEN CHOOSE j \in i..Len(seq) : seq[j] /\ \A l \in i..(j - 1) : ~seq[l]
    ELSE Len(seq) + 1

(* The key of step j of a sequence: every step has a key of its own. *)
StepKey(j) == "key" \o ToString(j)

(* The key presses of n steps from step i on, last step first. *)
KeyTaps_Reversed(i, n) == [j \in 1..n |-> KeyTap(StepKey(i + n - j))]

(* The key presses of n steps from step i on, in the order of the loop. *)
KeyTaps(i, n) == [j \in 1..n |-> KeyTap(StepKey(i + j - 1))]

(* The robotjs calls that move the pointer or press keys *)
PointerAndKeyboard ==
    {"moveMouse", "mouseClick", "mouseToggle", "dragMouse", "typeString", "keyTap"}
        \cup {KeyTap(hotkeyMap[h]) : h \in DOMAIN hotkeyMap}
        \cup {KeyTap("space")}
        \cup {KeyTap(StepKey(j)) : j \in 1..MaxSteps}

(* hotkey/index.ts:195-200 from step i up to the next timer, the end of the
   loop or the first pressKey that throws (failAt: its step, 0: none). *)
RunSequence(seq, i, failAt) ==
    IF i > Len(seq)
    THEN [stop |-> "done", step |-> i, error |-> ReturnedVoid, device |-> <<>>,
          reply |-> NoReply]
    ELSE IF checkPermission("accessibility") # "authorized"
    THEN [stop |-> "error", step |-> i, error |-> NotGranted("accessibility"),
          device |-> <<>>, reply |-> NoReply]
    ELSE IF failAt \in i..(IF NextDelay(seq, i) <= Len(seq) THEN NextDelay(seq, i) ELSE Len(seq))
    THEN [stop |-> "error", step |-> failAt,
          error |-> AccessibilityError(FailedMessage("pressKey", FALSE), RobotThrew.error),
          device |-> KeyTaps(i, failAt - i + 1), reply |-> RobotThrew]
    ELSE IF NextDelay(seq, i) <= Len(seq)
    THEN [stop |-> "await", step |-> NextDelay(seq, i), error |-> ReturnedVoid,
          device |-> KeyTaps(i, NextDelay(seq, i) - i + 1), reply |-> NoReply]
    ELSE [stop |-> "done", step |-> Len(seq) + 1, error |-> ReturnedVoid,
          device |-> KeyTaps(i, Len(seq) - i + 1), reply |-> NoReply]

SequenceResult(seq, run) ==
    IF run.stop = "error" THEN ErrorResult(run.error)
    ELSE ToolResult("Executed key sequence with " \o ToString(Len(seq)) \o " steps", FALSE)

SendKeySequenceCall(seq, failAt) ==
    /\ failAt <= Len(seq)
    /\ device' = RunSequence(seq, 1, failAt).device
    /\ IF RunSequence(seq, 1, failAt).stop = "await"
       THEN Suspend(calls, [Call("send_key_sequence", NoTarget, "await timeout", 0, {}, {})
                               EXCEPT !.sequence = seq,
                                      !.step = RunSequence(seq, 1, failAt).step])
       ELSE ReturnAfter("send_key_sequence", NoTarget, RunSequence(seq, 1, failAt).reply,
                        SequenceResult(seq, RunSequence(seq, 1, failAt)))
    /\ UNCHANGED <<connections, connected, channels, connectedTargetId, permissions>>

(* The timer of step h.step has fired: the loop goes on. *)
KeySequenceTimeout(h, failAt) ==
    /\ h.op = "send_key_sequence"
    /\ h.pc = "await timeout"
    /\ failAt = 0 \/ failAt \in (h.step + 1)..Len(h.sequence)
    /\ device' = RunSequence(h.sequence, h.step + 1, failAt).device
    /\ IF RunSequence(h.sequence, h.step + 1, failAt).stop = "await"
       THEN Suspend(Others(h),
                    [h EXCEPT !.step = RunSequence(h.sequence, h.step + 1, failAt).step])
       ELSE Resume(h, RunSequence(h.sequence, h.step + 1, failAt).reply,
                   SequenceResult(h.sequence, RunSequence(h.sequence, h.step + 1, failAt)))
    /\ UNCHANGED <<connections, connected, channels, connectedTargetId, permissions>>

(* ---- tools/permissions ---- *)

(* JSON.stringify(getPermissionInfo(c)), permissions.ts:46-55, on one line *)
InfoText(c) ==
    "{\"type\": \"" \o c \o "\", \"status\": \"" \o checkPermission(c)
        \o "\", \"canRequest\": "
        \o (IF checkPermission(c) = "not-determined" THEN "true" ELSE "false") \o "}"

(* check_permission, check_all_permissions (over the capabilities above) and
   get_permission_instructions: synchronous reads. *)
PermissionToolCall(tool, c) ==
    /\ tool \in {"check_permission", "check_all_permissions", "get_permission_instructions"}
    /\ device' = <<>>
    /\ ReturnAtOnce(tool, c,
                    ToolResult(CASE tool = "check_permission" -> InfoText(c)
                                 [] tool = "check_all_permissions" ->
                                       "{" \o InfoText("accessibility") \o ", "
                                           \o InfoText("screen-capture") \o "}"
                                 [] OTHER -> getPermissionInstructions(c), FALSE))
    /\ UNCHANGED <<connections, connected, channels, connectedTargetId, permissions>>

(* request_permission (tools/permissions 138-160) after requestPermission *)
RequestPermissionResumes(h) ==
    SingleCallResumes(h, "request_permission",
                      "Permission request result: " \o returned.result.value)

NextDevice ==
    \/ Idle /\ \E m \in Methods, at \in BOOLEAN, failAt \in FailPoints : ManagerCall(m, at, failAt)
    \/ Idle /\ \E tool \in UiTools, at \in BOOLEAN, failAt \in FailPoints :
                  UiToolCall(tool, at, failAt)
    \/ Idle /\ \E tool \in HotkeyTools, failAt \in FailPoints : PressKeyToolCall(tool, failAt)
    \/ Idle /\ \E hotkey \in HotkeyNames, failAt \in FailPoints :
                  TriggerCommonHotkeyCall(hotkey, failAt)
    \/ Idle /\ \E seq \in KeySequences, failAt \in FailPoints : SendKeySequenceCall(seq, failAt)
    \/ Idle /\ \E tool \in PermissionTools, c \in Capabilities : PermissionToolCall(tool, c)
    \/ Idle /\ \E c \in Capabilities : ToolCall("request_permission", c) /\ DeviceUntouched
    \/ Idle /\ \E c \in Capabilities : RequestPermissionCall(c)
    \/ \E h \in Handlers : ReadyToCall(h, "requestPermission") /\ RequestPermissionCall(h.target)
    \/ HandlerDue /\ \E h \in Handlers : RequestPermissionResumes(h) /\ DeviceUntouched
    \/ ~HandlerDue /\ \E k \in ClientCalls, rejected \in BOOLEAN : AskSettled(k, rejected)
    \/ \E h \in Handlers, failAt \in FailPoints : ScreenshotWindowTimeout(h, failAt)
    \/ \E h \in Handlers, failAt \in FailPoints : KeySequenceTimeout(h, failAt)
    \/ ~HandlerDue /\ \E c \in Capabilities, st \in Statuses \cup {Unreadable} :
                        StatusChanges(c, st)

SpecDevice == Init /\ [][NextDevice]_vars

(* The server with all its tools, called by one client at a time.  The tools
   over the CDP client and the tools over the device layer share no state
   (the former leave permissions and device alone, the latter everything
   else), so their steps commute; the server is explored with the device
   tools used before the first channel is opened, and the CDP tools used
   while the device layer is in its initial state. *)
DeviceQuiet == permissions = [c \in Capabilities |-> "not-determined"] /\ device = <<>>

ClientQuiet == channels = <<>> /\ connectedTargetId = NoTarget

NextServer ==
    \/ DeviceQuiet /\ NextTools
    \/ ClientQuiet /\ NextDevice

SpecServer == Init /\ [][NextServer]_vars

(* ------------------------------------------------------------------------ *)
(* Properties of the connection lifecycle                                   *)
(* ------------------------------------------------------------------------ *)

(* The methods that run connect. *)
ConnectOps == {"connect", "ensureConnected"}

(* A call record k is in calls' once more than in calls: the step suspended
   a call at k. *)
Started(k) == CopiesIn(k, calls') > CopiesIn(k, calls)

(* C1: overlapping connect(t) calls share one channel: no two calls in
   flight hold different channels to the same target. *)
C1_OverlappingConnectsShareOneChannel ==
    \A k1 \in InFlight, k2 \in InFlight :
        (/\ k1.pc = "enabling"
         /\ k2.pc = "enabling"
         /\ k1.target = k2.target) => k1.client = k2.client

(* C3: a target is connected only once all four domains are enabled on its
   channel; while a connect(t) is in flight, and when a connect(t) has just
   failed, isConnected(t) is false and t has no entry. *)
C3_NotConnectedUntilAllEnabled ==
    /\ \A t \in Targets :
        isConnected(t) => channels[connections[t]].enabled = Domains
    /\ \A k \in InFlight :
        k.pc \in {"opening", "enabling"} =>
            ~isConnected(k.target) /\ connections[k.target] = NoConn
    /\ (returned.op \in ConnectOps /\ returned.result.kind = "CDPError"
            /\ returned.target # NoTarget) =>
            ~isConnected(returned.target) /\ connections[returned.target] = NoConn

(* C4: when a connect fails after its channel was opened, that channel has
   been closed by the time the failure is thrown. *)
C4_FailedConnectClosesChannel ==
    (/\ returned.op \in ConnectOps
     /\ returned.result.kind = "CDPError"
     /\ returned.client # 0) => channels[returned.client].state = "closed"

(* C5: connect(t) on a connected target returns at once and successfully:
   it suspends at no await (so opens no channel and enables no domain) and
   leaves the mapping, the flags and the channels as they were. *)
C5_ConnectIdempotent ==
    [][\A t \in PageTargets :
        isConnected(t) =>
            /\ ~Started(Call("connect", t, "opening", 0, {}, {}))
            /\ (returned'.op = "connect" /\ returned'.target = t /\ ~returned'.suspended) =>
                  /\ returned'.result = ReturnedVoid
                  /\ UNCHANGED <<connections, connected, channels>>]_vars

C5_Witness ==
    /\ returned.op = "connect"
    /\ ~returned.suspended
    /\ returned.result = ReturnedVoid
    /\ isConnected(returned.target)
    /\ channels[connections[returned.target]].state = "open"

(* C6: disconnect(t) never throws; when it returns t has no entry and is
   not connected, whether or not the close succeeded; called on a target
   with no entry it returns at once and changes nothing. *)
C6_DisconnectNeverThrows ==
    [][/\ returned'.op = "disconnect" =>
            /\ returned'.result = ReturnedVoid
            /\ connections'[returned'.target] = NoConn
            /\ returned'.target \notin {t \in Targets :
                    connections'[t] # NoConn /\ connected'[connections'[t]]}
       /\ \A t \in PageTargets :
            connections[t] = NoConn =>
                /\ \A c \in 0..MaxChannels :
                      ~Started(Call("disconnect", t, "closing", c, {}, {}))
                /\ (returned'.op = "disconnect" /\ returned'.target = t
                        /\ ~returned'.suspended) =>
                      UNCHANGED <<connections, connected, channels>>]_vars

(* A disconnect whose close failed has returned: the channel is still open,
   the entry is gone. *)
C6_Witness ==
    /\ returned.op = "disconnect"
    /\ returned.suspended
    /\ returned.result = ReturnedVoid
    /\ channels[returned.client].state = "open"
    /\ channels[returned.client].setup = "ready"
    /\ connections[returned.target] = NoConn

(* C7: when disconnectAll returns, the mapping is empty and no target is
   connected, whatever connect and disconnect calls ran meanwhile. *)
C7_DisconnectAllLeavesMappingEmpty ==
    returned.op = "disconnectAll" =>
        ConnectionKeys = {} /\ getActiveConnections = {}

(* C8: disconnectAll on an empty mapping returns at once, successfully,
   leaving the mapping empty and everything unchanged; afterwards connect(t)
   behaves as a first connect: it never returns at once for a target that
   is not connected, and when it succeeds t maps to a connection object
   that was not in the mapping before, connected, on a channel opened by
   this call with all four domains enabled. *)
C8_DisconnectAllIdempotent ==
    [][/\ ConnectionKeys = {} =>
            ~Started(Call("disconnectAll", NoTarget, "closingAll", 0, {}, {}))
       /\ (returned'.op = "disconnectAll" /\ ~returned'.suspended) =>
            /\ returned'.result = ReturnedVoid
            /\ \A t \in Targets : connections'[t] = NoConn
            /\ UNCHANGED <<connections, connected, channels>>
       /\ \A t \in PageTargets :
            ~isConnected(t) =>
                ~(returned'.op = "connect" /\ returned'.target = t /\ ~returned'.suspended)
       /\ (returned'.op = "connect" /\ returned'.suspended
                /\ returned'.result = ReturnedVoid) =>
            LET c == returned'.client
                t == returned'.target
            IN  /\ c \in 1..Len(channels)
                /\ channels[c].setup = "enabling"
                /\ \A u \in Targets : connections[u] # c
                /\ connections'[t] = c
                /\ connected'[c]
                /\ channels'[c] = [state |-> "open", setup |-> "ready", enabled |-> Domains]]_vars

(* A connect has succeeded on a second channel after the session on the
   first was closed and every entry removed. *)
C8_Witness ==
    /\ returned.op = "connect"
    /\ returned.suspended
    /\ returned.result = ReturnedVoid
    /\ returned.client = 2
    /\ channels[1].state = "closed"
    /\ ConnectionKeys = {returned.target}
    /\ connections[returned.target] = 2

(* ------------------------------------------------------------------------ *)
(* Properties of the operations                                             *)
(* ------------------------------------------------------------------------ *)

(* C2: each of the seven operations, called on a target that is not
   connected (never connected, connect failed, or disconnected), throws the
   not-connected protocol error at once: it sends no request, opens no
   channel and leaves the mapping as it was. *)
C2_OperationsFailFastWhenNotConnected ==
    [][\A t \in PageTargets :
        ~isConnected(t) =>
            /\ \A k \in BagToSet(calls') :
                  (k.op \in Ops /\ k.target = t) => ~Started(k)
            /\ (returned'.op \in Ops /\ returned'.target = t /\ ~returned'.suspended) =>
                  /\ returned'.result = NotConnectedError
                  /\ UNCHANGED <<connections, connected, channels>>]_vars

(* An operation has just failed fast on a target whose session was
   disconnected, after a connect to the other target had failed. *)
C2_Witness ==
    /\ returned.op \in Ops
    /\ ~returned.suspended
    /\ returned.result = NotConnectedError
    /\ Len(channels) = 2
    /\ {channels[1].setup, channels[2].setup} = {"ready", "abandoned"}
    /\ ConnectionKeys = {}

(* C9: when the reply to evaluate carries exception details, the caller
   gets a failure that differs in kind and in message from the failure a
   rejected request gives. *)
C9_ScriptErrorDistinctFromProtocolError ==
    (returned.op = "evaluate" /\ returned.reply.exception) =>
        /\ returned.result.kind # "ok"
        /\ \A e \in TransportErrors :
              /\ returned.result.kind # evaluate(Rejected(e)).kind
              /\ returned.result.message # evaluate(Rejected(e)).message

(* C10: a reply to getNodeAttributes whose raw attribute array has odd
   length makes the method throw a protocol error. *)
C10_OddAttributeArrayThrows ==
    (/\ returned.op = "getNodeAttributes"
     /\ returned.suspended
     /\ ~returned.reply.fails
     /\ Len(returned.reply.attributes) % 2 = 1) => returned.result.kind = "CDPError"

(* The names of a raw attribute array: its elements at the code's even
   indices. *)
AttributeNames(a) == {a[i] : i \in {j \in 1..Len(a) : j % 2 = 1}}

(* C11: for an even-length raw attribute array [n1, v1, ..., nk, vk] with
   distinct names, getNodeAttributes returns exactly the mapping
   {n1: v1, ..., nk: vk}; the empty array gives the empty mapping. *)
C11_EvenAttributeArrayFoldsPairwise ==
    LET a == returned.reply.attributes
    IN  (/\ returned.op = "getNodeAttributes"
         /\ returned.suspended
         /\ ~returned.reply.fails
         /\ Len(a) % 2 = 0
         /\ Cardinality(AttributeNames(a)) = Len(a) \div 2) =>
            /\ returned.result =
                  Returned("object", {<<a[2 * i - 1], a[2 * i]>> : i \in 1..(Len(a) \div 2)})
            /\ (a = <<>> => returned.result.props = {})

(* getNodeAttributes has returned {id: "x", x: "x"} for ["id","x","x","x"]. *)
C11_Witness ==
    /\ returned.op = "getNodeAttributes"
    /\ returned.reply.attributes = <<"id", "x", "x", "x">>
    /\ returned.result = Returned("object", {<<"id", "x">>, <<"x", "x">>})

(* C19: a capture request for the format png, whether png was given or
   taken by default, carries no quality value. *)
C19_PngRequestCarriesNoQuality ==
    \A k \in InFlight :
        (/\ k.op = "screenshot"
         /\ k.pc = "reply"
         /\ captureScreenshotParams(k.options).format = "png") =>
            captureScreenshotParams(k.options).quality = "undefined"

(* ------------------------------------------------------------------------ *)
(* Properties of ensureConnected                                            *)
(* ------------------------------------------------------------------------ *)

(* C13: while the remembered target id is set and that target is connected,
   a call of ensureConnected starts no discovery request and suspends at no
   await (so enters no connect): it returns at once the session of the
   remembered target, leaving the remembered id, the mapping, the flags and
   the channels as they were. *)
C13_RememberedSessionReturnedUnchanged ==
    [][(connectedTargetId # NoTarget /\ isConnected(connectedTargetId)) =>
          /\ ~Started(Call("ensureConnected", NoTarget, "listing", 0, {}, {}))
          /\ (returned'.op = "ensureConnected" /\ ~returned'.suspended) =>
                /\ returned'.result =
                      Returned("session", {<<"targetId", connectedTargetId>>})
                /\ returned'.target = connectedTargetId
                /\ UNCHANGED <<connections, connected, channels, connectedTargetId>>]_vars

(* ensureConnected has returned the remembered, connected session at once. *)
C13_Witness ==
    /\ returned.op = "ensureConnected"
    /\ ~returned.suspended
    /\ returned.result = Returned("session", {<<"targetId", connectedTargetId>>})
    /\ connectedTargetId \in PageTargets
    /\ isConnected(connectedTargetId)

(* The first entry of kind "page" of a discovery answer, in the answer's order *)
FirstPageOf(a) ==
    a[CHOOSE i \in 1..Len(a) : IsPage(a[i]) /\ \A j \in 1..(i - 1) : ~IsPage(a[j])]

(* C14: the target that ensureConnected connects after a discovery is the
   first entry of kind "page" of the answer it received, in the answer's
   order and whatever entries of other kinds surround it, and it is the
   target remembered in the step that enters the connect. *)
C14_FirstPageTargetSelected ==
    [][\A k \in BagToSet(calls') :
          (k.op = "ensureConnected" /\ k.pc \in {"opening", "enabling"}) =>
             /\ \E i \in 1..Len(k.targets) : IsPage(k.targets[i])
             /\ k.target = FirstPageOf(k.targets)
             /\ (k.pc = "enabling" => channels'[k.client].state = "open")
             /\ (Started(k) /\ k.pc = "opening") => connectedTargetId' = k.target]_vars

(* ensureConnected, answered [webview, page, page], is connecting the second
   entry and has remembered it. *)
C14_Witness ==
    \E k \in InFlight :
        /\ k.op = "ensureConnected"
        /\ k.pc = "enabling"
        /\ k.targets = <<"w1", "t1", "t2">>
        /\ k.target = "t1"
        /\ channels[k.client].state = "open"
        /\ connectedTargetId = "t1"

(* C15: ensureConnected fails with the no-targets-found error, whose message
   tells to start the app with the inspect flag, only on a discovery answer
   with no entry of kind "page" (the empty answer included), and the step
   that throws it starts no connect, opens no channel and leaves the
   remembered target id, the mapping and the flags as they were; an answer
   with no page entry never makes it enter a connect. *)
C15_NoPageTargetFailsWithoutConnect ==
    [][/\ (returned'.op = "ensureConnected" /\ returned'.result.kind = "Error") =>
            /\ returned'.result =
                  PlainError("No Electron targets found. Make sure your Electron app is running with --inspect=9222 flag.")
            /\ \A i \in 1..Len(returned'.reply.targets) : ~IsPage(returned'.reply.targets[i])
            /\ \A k \in BagToSet(calls') : ~Started(k)
            /\ UNCHANGED <<connections, connected, channels, connectedTargetId>>
       /\ \A k \in BagToSet(calls') :
            (k.op = "ensureConnected" /\ k.pc \in {"opening", "enabling"}) =>
               \E i \in 1..Len(k.targets) : IsPage(k.targets[i])]_vars

(* ensureConnected, answered one webview and no page, has thrown the
   no-targets-found error while a target was remembered. *)
C15_Witness ==
    /\ returned.op = "ensureConnected"
    /\ returned.result = NoTargetsError
    /\ returned.reply.targets = <<"w1">>
    /\ connectedTargetId \in PageTargets

(* ------------------------------------------------------------------------ *)
(* Properties of the tool handlers                                          *)
(* ------------------------------------------------------------------------ *)

(* C12: on a connected session a selector that matches no node is not an
   error: querySelector returns null and querySelectorAll returns the empty
   array, and the query_selector and query_selector_all handlers that
   awaited them return a result without the isError flag. *)
C12_NoMatchIsNotAnError ==
    [][/\ (/\ returned'.op = "querySelector"
           /\ returned'.suspended
           /\ ~returned'.reply.fails
           /\ returned'.reply.nodeId = 0) => returned'.result = Returned("null", {})
       /\ (/\ returned'.op = "querySelectorAll"
           /\ returned'.suspended
           /\ ~returned'.reply.fails
           /\ returned'.reply.nodeIds = <<>>) => returned'.result = Returned("array", {})
       /\ (/\ HandlerDue
           /\ returned.op \in {"querySelector", "querySelectorAll"}
           /\ returned.result \in {Returned("null", {}), Returned("array", {})}) =>
              /\ returned'.op \in {"query_selector", "query_selector_all"}
              /\ returned'.result.kind = "ToolResult"
              /\ returned'.result.props = {}]_vars

(* The query_selector handler has reported that no element matched. *)
C12_Witness ==
    /\ returned.op = "query_selector"
    /\ returned.result = ToolResult("No element found matching selector", FALSE)
    /\ ~returned.reply.fails
    /\ isConnected(returned.target)

(* The manager method and the capability behind each tool of the device layer *)
MethodOfTool(tool) == IF tool \in UiTools THEN UiMethod[tool] ELSE "pressKey"

GateOfTool(tool) == IF tool \in PermissionTools THEN "none" ELSE Gate[MethodOfTool(tool)]

(* What C16 asks of one step, the failure text of electron_reset beginning
   with resetPrefix and that of every other handler with "Error: ":
   a handler that returns returns a tool result; when the client method it
   awaited threw, when the capability it needs is not granted or when
   robotjs threw, the result is flagged isError and its text is the prefix
   followed by the message of the error (send_key_sequence fails on a
   missing grant only in a run that has a key left to press); otherwise (the
   report of a script error by electron_execute and the unknown name of a
   hotkey apart) the result is not flagged. *)
C16_Step(resetPrefix) ==
    /\ returned'.op \in ToolNames => returned'.result.kind = "ToolResult"
    /\ (HandlerDue /\ returned.result.kind # "ok") =>
          /\ returned'.op \in ToolNames
          /\ returned'.result =
                [kind |-> "ToolResult", message |-> "", originalError |-> "",
                 value |-> (IF returned'.op = "electron_reset" THEN resetPrefix
                            ELSE "Error: ") \o returned.result.message,
                 props |-> {<<"isError", "true">>}]
    /\ (/\ HandlerDue
        /\ returned.result.kind = "ok"
        /\ returned'.op \in ToolNames
        /\ ~(returned'.op = "electron_execute" /\ returned.result.value = "{__error}")) =>
          returned'.result.props = {}
    /\ \A tool \in UiTools \cup HotkeyTools :
          (returned'.op = tool /\ returned'.target # "bogus") =>
             /\ (GateOfTool(tool) # "none" /\ permissions[GateOfTool(tool)] # "authorized") =>
                   \/ returned'.result =
                         [kind |-> "ToolResult", message |-> "", originalError |-> "",
                          value |-> "Error: " \o NotGranted(GateOfTool(tool)).message,
                          props |-> {<<"isError", "true">>}]
                   \/ /\ tool = "send_key_sequence"
                      /\ device' = <<>>
                      /\ returned'.result.props = {}
             /\ returned'.reply.fails =>
                   \E at \in BOOLEAN :
                      returned'.result =
                         [kind |-> "ToolResult", message |-> "", originalError |-> "",
                          value |-> "Error: " \o FailedMessage(MethodOfTool(tool), at),
                          props |-> {<<"isError", "true">>}]
             /\ (/\ ~returned'.reply.fails
                 /\ GateOfTool(tool) # "none" => permissions[GateOfTool(tool)] = "authorized") =>
                   "isError" \notin {p[1] : p \in returned'.result.props}
    /\ returned'.op \in PermissionTools => returned'.result.props = {}

(* C16 as stated: every handler returns a result and never throws; on a
   failure of the operation under it the result is flagged isError and its
   text is "Error: " followed by the message of the failure, electron_reset
   included; on success the result is not flagged. *)
C16_EveryFailureIsErrorPrefixed == [][C16_Step("Error: ")]_vars

(* C16 amended: as above, but the failure text of electron_reset is
   "Connection reset. Reconnect failed: " followed by the message of the
   failure; every other handler's is "Error: " followed by it. *)
C16_FailureTextIsPrefixPlusMessage ==
    [][C16_Step("Connection reset. Reconnect failed: ")]_vars

(* electron_reset has returned the failure of its reconnect, flagged. *)
C16_Witness ==
    /\ returned.op = "electron_reset"
    /\ returned.result.kind = "ToolResult"
    /\ returned.result.value =
          "Connection reset. Reconnect failed: No Electron targets found. Make sure your Electron app is running with --inspect=9222 flag."
    /\ returned.result.props = {<<"isError", "true">>}

(* ------------------------------------------------------------------------ *)
(* Properties of the device layer                                           *)
(* ------------------------------------------------------------------------ *)

(* C17: a step makes a pointer or keyboard call of robotjs only while the
   status of accessibility is 'authorized', and captures the screen only
   while that of screen-capture is; a method of the manager called without
   the grant it needs throws the capability error and has made no call of
   robotjs at all. *)
C17_DeviceActionsNeedGrant ==
    /\ (\E i \in 1..Len(device) : device[i] \in PointerAndKeyboard) =>
          permissions["accessibility"] = "authorized"
    /\ (\E i \in 1..Len(device) : device[i] \in Capture) =>
          permissions["screen-capture"] = "authorized"
    /\ \A m \in {"moveMouse", "click", "doubleClick", "drag", "typeText", "pressKey"} :
          (returned.op = ManagerOp(m) /\ permissions["accessibility"] # "authorized") =>
             /\ returned.result.kind = "AccessibilityError"
             /\ returned.result.message =
                   "Accessibility permission not granted. To grant Accessibility permission:"
             /\ device = <<>>
    /\ (returned.op = ManagerOp("takeScreenshot")
            /\ permissions["screen-capture"] # "authorized") =>
          /\ returned.result.kind = "AccessibilityError"
          /\ returned.result.message =
                "Screen Recording permission not granted. To grant Screen Recording permission:"
          /\ device = <<>>

(* drag was refused while accessibility was denied, and nothing was done. *)
C17_Witness ==
    /\ returned.op = ManagerOp("drag")
    /\ permissions["accessibility"] = "denied"
    /\ returned.result.kind = "AccessibilityError"
    /\ device = <<>>

(* C18: while the status of a capability is authorized, denied or
   restricted, requestPermission of it suspends at no prompt, no step
   invokes its OS prompt, and the call returns at once that status and
   leaves the statuses alone; the prompt is invoked, once, only by a call
   that found the status not-determined (which is also what a failed read of
   the status is taken for). *)
C18_RequestIsNoOpUnlessNotDetermined ==
    [][\A c \in Capabilities :
          /\ permissions[c] \in {"authorized", "denied", "restricted"} =>
                /\ ~Started(Call("requestPermission", c, "asking", 0, {}, {}))
                /\ \A i \in 1..Len(device') : device'[i] # Prompt(c)
                /\ (/\ returned'.op = "requestPermission"
                    /\ returned'.target = c
                    /\ ~returned'.suspended) =>
                       /\ returned'.result = Returned(permissions[c], {})
                       /\ permissions' = permissions
          /\ Started(Call("requestPermission", c, "asking", 0, {}, {})) =>
                /\ permissions[c] \in {"not-determined", Unreadable}
                /\ device' = <<Prompt(c)>>]_vars

(* requestPermission of a denied capability has returned 'denied' at once,
   without a prompt. *)
C18_Witness ==
    /\ returned.op = "requestPermission"
    /\ ~returned.suspended
    /\ permissions[returned.target] = "denied"
    /\ returned.result = Returned("denied", {})
    /\ device = <<>>

(* ------------------------------------------------------------------------ *)
(* Properties of requests without a reply                                   *)
(* ------------------------------------------------------------------------ *)

(* C20: a call whose request is never answered stays suspended for ever: no
   step removes it from the calls in flight and it never returns, with a
   value or with an error; meanwhile every call whose replies do arrive, on
   another target's session or on the same session, returns. *)
C20_HungRequestHangsOnlyItsCaller ==
    /\ [][\A k \in InFlight : Hung(k) => CopiesIn(k, calls') >= CopiesIn(k, calls)]_vars
    /\ [](\A k \in InFlight : Hung(k) => k.pc \in {"opening", "reply"})
    /\ []((returned.op = "evaluate" /\ returned.target = "t1") => ~returned.suspended)
    /\ [](returned.op = "connect" => returned.target # "w1")
    /\ \A o \in HungOps, t \in Targets :
          (\E k \in InFlight : k.op = o /\ k.target = t /\ ~Hung(k))
             ~> (returned.op = o /\ returned.target = t /\ returned.suspended)

(* getDocument has returned the document of t1 while an evaluate sent
   earlier on the same session is still without its reply. *)
C20_Witness ==
    /\ returned.op = "getDocument"
    /\ returned.target = "t1"
    /\ returned.suspended
    /\ returned.result.kind = "ok"
    /\ \E k \in InFlight :
          k.op = "evaluate" /\ k.target = "t1" /\ k.client = returned.client

(* ------------------------------------------------------------------------ *)
(* Properties of discovery                                                  *)
(* ------------------------------------------------------------------------ *)

(* The locals of a call of listTargets: it awaits its one request. *)
ListTargetsRecord == Call("listTargets", NoTarget, "list", 0, {}, {})

(* C21: a call of listTargets is in one state only, awaiting its one
   discovery request; the step that settles the request returns from the
   call without issuing another request, with the targets or, whether the
   endpoint is unreachable or its answer cannot be processed, with the
   CDPError whose message names the --inspect flag, a message no other
   failure of the client carries; neither the step that issues the request
   nor the step that settles it changes the mapping, the connected flags or
   the channels. *)
C21_ListTargetsOneRequestMappingKept ==
    [][/\ \A k \in InFlight \cup BagToSet(calls') :
              k.op = "listTargets" => k = ListTargetsRecord
       /\ Started(ListTargetsRecord) =>
              /\ CopiesIn(ListTargetsRecord, calls') = CopiesIn(ListTargetsRecord, calls) + 1
              /\ UNCHANGED <<connections, connected, channels>>
       /\ returned'.op = "listTargets" =>
              /\ CopiesIn(ListTargetsRecord, calls') = CopiesIn(ListTargetsRecord, calls) - 1
              /\ returned'.suspended
              /\ \/ returned'.result.kind = "ok"
                 \/ /\ returned'.result.kind = "CDPError"
                    /\ returned'.result.message = ListFailedError.message
                    /\ returned'.result.originalError \in DiscoveryFailures
              /\ UNCHANGED <<connections, connected, channels>>
       /\ CopiesIn(ListTargetsRecord, calls') < CopiesIn(ListTargetsRecord, calls) =>
              returned'.op = "listTargets"
       /\ ListFailedError.message \notin
              {FailureMessage[o] : o \in Ops}
                 \cup {NotConnectedError.message, ConnectFailed("").message}]_vars

(* listTargets has failed on an answer it could not process while a session
   is connected. *)
C21_Witness ==
    /\ returned.op = "listTargets"
    /\ returned.result.kind = "CDPError"
    /\ returned.result.originalError = "targets.map is not a function"
    /\ getActiveConnections # {}

(* ------------------------------------------------------------------------ *)
(* Properties of the hotkey tools                                           *)
(* ------------------------------------------------------------------------ *)

(* The locals of trigger_common_macos_hotkey while it awaits its timer. *)
AwaitsSpace ==
    Call("trigger_common_macos_hotkey", "screenshot_window", "await timeout", 0, {}, {})

(* C22: trigger_common_macos_hotkey with screenshot_window goes on to its
   timer only in a step in which it pressed Command+Shift+4 and the press
   succeeded; Space is pressed (the device's last calls change to hold it)
   only by a call that had gone on to the timer, in a later step, and
   nothing else is pressed with it; a first run that
   returns has pressed no Space and reports an error.  Every other name of
   the map returns in its first run with at most one key press, that of its
   own combination, and with exactly that one when access is granted. *)
C22_ScreenshotWindowPressesComboThenSpace ==
    [][/\ Started(AwaitsSpace) =>
             /\ device' = <<KeyTap("command+shift+4")>>
             /\ permissions["accessibility"] = "authorized"
             /\ returned' = NoReturn
       /\ \A k \in BagToSet(calls') :
             (k.op = "trigger_common_macos_hotkey" /\ CopiesIn(k, calls') > CopiesIn(k, calls))
                => k = AwaitsSpace
       /\ (device' # device /\ \E i \in 1..Len(device') : device'[i] = KeyTap("space")) =>
             /\ AwaitsSpace \in InFlight
             /\ CopiesIn(AwaitsSpace, calls') = CopiesIn(AwaitsSpace, calls) - 1
             /\ device' = <<KeyTap("space")>>
             /\ returned'.op = "trigger_common_macos_hotkey"
             /\ returned'.target = "screenshot_window"
             /\ returned'.suspended
       /\ (/\ returned'.op = "trigger_common_macos_hotkey"
           /\ returned'.target = "screenshot_window"
           /\ ~returned'.suspended) =>
             /\ device' \in {<<>>, <<KeyTap("command+shift+4")>>}
             /\ returned'.result.props = {<<"isError", "true">>}
       /\ \A h \in {"spotlight", "mission_control", "app_switcher", "screenshot_full",
                     "screenshot_selection", "show_desktop", "lock_screen", "force_quit",
                     "emoji_picker", "character_viewer"} :
             (returned'.op = "trigger_common_macos_hotkey" /\ returned'.target = h) =>
                /\ ~returned'.suspended
                /\ Len(device') <= 1
                /\ \A i \in 1..Len(device') : device'[i] = KeyTap(hotkeyMap[h])
                /\ permissions["accessibility"] = "authorized" => Len(device') = 1]_vars

(* screenshot_window has pressed Space after its timer and returned its
   success. *)
C22_Witness ==
    /\ returned.op = "trigger_common_macos_hotkey"
    /\ returned.target = "screenshot_window"
    /\ returned.suspended
    /\ device = <<KeyTap("space")>>
    /\ returned.result = ToolResult("Triggered screenshot_window hotkey", FALSE)

(* The steps of the sequence that a step of send_key_sequence starts from:
   the one after the step whose delay it awaited, or the first. *)
SequenceFrom ==
    IF \E h \in InFlight : h.op = "send_key_sequence"
    THEN (CHOOSE h \in InFlight : h.op = "send_key_sequence").step + 1
    ELSE 1

(* The tool acts in this step: it returns, or it goes on to a timer. *)
SequenceActs ==
    \/ returned'.op = "send_key_sequence"
    \/ \E h \in BagToSet(calls') : h.op = "send_key_sequence" /\ Started(h)

(* C23: every run of send_key_sequence presses the keys of consecutive steps
   in the order of the sequence, starting at the first step or at the step
   after the delay it awaited; it stops to await a timer only after a step
   that has a delay, having pressed that step without failure; when a press
   fails or access is not granted the result is flagged isError, no later
   step is pressed (the call is over) and the failing press is the last one
   made; on success every step has been pressed and the count reported is
   the length of the sequence. *)
C23_KeySequencePressedInOrder ==
    [][SequenceActs =>
         \E n \in 0..MaxSteps :
            /\ device' = [j \in 1..n |-> KeyTap(StepKey(SequenceFrom + j - 1))]
            /\ \A h \in InFlight : h.op = "send_key_sequence" => h.pc = "await timeout"
            /\ \A h \in BagToSet(calls') :
                  (h.op = "send_key_sequence" /\ Started(h)) =>
                     /\ n >= 1
                     /\ h.step = SequenceFrom + n - 1
                     /\ h.step <= Len(h.sequence)
                     /\ h.sequence[h.step]
                     /\ \A j \in SequenceFrom..(h.step - 1) : ~h.sequence[j]
                     /\ \A k \in InFlight : k.op = "send_key_sequence" => k.sequence = h.sequence
                     /\ returned' = NoReturn
                     /\ permissions["accessibility"] = "authorized"
            /\ returned'.op = "send_key_sequence" =>
                  /\ \A h \in BagToSet(calls') : h.op # "send_key_sequence"
                  /\ \/ /\ returned'.result.props = {<<"isError", "true">>}
                        /\ \/ returned'.reply.fails /\ n >= 1
                           \/ permissions["accessibility"] # "authorized" /\ n = 0
                     \/ /\ returned'.result =
                              ToolResult("Executed key sequence with "
                                            \o ToString(SequenceFrom + n - 1) \o " steps", FALSE)
                        /\ ~returned'.reply.fails
                        /\ \A h \in InFlight : h.op = "send_key_sequence" =>
                              SequenceFrom + n - 1 = Len(h.sequence)]_vars

(* A sequence of two steps, the first with a delay, has been pressed to its
   end: the second key after the timer, and two steps reported. *)
C23_Witness ==
    /\ returned.op = "send_key_sequence"
    /\ returned.suspended
    /\ device = <<KeyTap(StepKey(2))>>
    /\ returned.result = ToolResult("Executed key sequence with 2 steps", FALSE)

(* ------------------------------------------------------------------------ *)
(* Properties of concurrent requests on one session                         *)
(* ------------------------------------------------------------------------ *)

(* The elements query_selector_all is to report for the node ids `ids`: in
   their order, each with the attributes the target holds for it. *)
ExpectedDetails(ids) ==
    [i \in 1..Len(Shown(ids)) |->
        Detail(ids[i], AttributeLoop(DomAttributes[ids[i]], 1, {}))]

(* C24: query_selector_all calls getNodeAttributes once for each node id
   that querySelectorAll returned, all in one step; each of these calls
   returns the attributes of the node id it was given, whichever of them is
   answered first (the channel hands a reply to the request it answers);
   the slots of the handler stay in the order of the node ids, and the
   elements it reports are the node ids in that order, each with the
   attributes of its own node. *)
C24_DetailsCorrelatedPerRequest ==
    [][/\ \A h \in BagToSet(calls') :
             (h.op = "query_selector_all" /\ h.pc = "details") =>
                /\ Len(h.details) = Len(Shown(h.nodeIds))
                /\ \A i \in 1..Len(h.details) : h.details[i].nodeId = h.nodeIds[i]
                /\ (returned.op = "querySelectorAll" /\ Started(h)) =>
                      /\ h.nodeIds = returned.reply.nodeIds
                      /\ \A i \in 1..Len(h.details) :
                            /\ ~h.details[i].done
                            /\ CopiesIn([Call("getNodeAttributes", h.target, "reply",
                                              connections[h.target], {}, {})
                                            EXCEPT !.nodeId = h.nodeIds[i]], calls') = 1
                      /\ BagCardinality(calls') = 1 + Len(h.details)
       /\ (/\ returned'.op = "getNodeAttributes"
           /\ returned'.nodeId \in NodeIds
           /\ returned'.result.kind = "ok") =>
             returned'.result =
                Returned("object", AttributeLoop(DomAttributes[returned'.nodeId], 1, {}))
       /\ \A h \in InFlight :
             (/\ h.op = "query_selector_all"
              /\ h.pc = "details"
              /\ returned'.op = "query_selector_all"
              /\ returned'.result.props = {}) =>
                returned'.result.value = DetailsText(h.nodeIds, ExpectedDetails(h.nodeIds))]_vars

(* query_selector_all has reported nodes 5 and 6, in this order, and the
   reply for node 5 was the last to arrive. *)
C24_Witness ==
    /\ returned.op = "query_selector_all"
    /\ returned.result =
          ToolResult(DetailsText(<<5, 6>>, ExpectedDetails(<<5, 6>>)), FALSE)
    /\ returned.reply.attributes = DomAttributes[5]

(* ------------------------------------------------------------------------ *)
(* Properties of the requests of one call                                   *)
(* ------------------------------------------------------------------------ *)

(* The methods of the client that send requests, the await each of them
   starts at, and how far an await is from the start of its method. *)
RequestingOps == Ops \cup {"connect", "ensureConnected", "listTargets"}

FirstAwait(o) ==
    CASE o = "connect" -> "opening"
      [] o = "ensureConnected" -> "listing"
      [] o = "listTargets" -> "list"
      [] o \in RootFirst -> "root"
      [] OTHER -> "reply"

AwaitRank(pc) == IF pc \in {"listing", "list"} THEN 0
                 ELSE IF pc \in {"opening", "root"} THEN 1 ELSE 2

(* The call with locals k goes on in this step, or returns. *)
Left(k) == CopiesIn(k, calls') < CopiesIn(k, calls)

(* C26: a call never awaits the same request twice and never goes back to
   an earlier one: when the locals of a call are replaced by others, the
   await they are at is a later one; a call that begins is at the first
   await of its method; a call whose locals go without others replacing them
   has returned, and with an error when the reply that resumed it was a
   rejection; a channel is opened only by a call that awaited CDP(), one
   channel in a step, and that call then awaits its enables, which it does
   once. *)
C26_NoInternalRetry ==
    [][/\ \A k \in InFlight, k2 \in BagToSet(calls') :
             (/\ k.op \in RequestingOps
              /\ k2.op = k.op
              /\ Left(k)
              /\ Started(k2)) => AwaitRank(k2.pc) > AwaitRank(k.pc)
       /\ \A k2 \in BagToSet(calls') :
             (/\ k2.op \in RequestingOps
              /\ Started(k2)
              /\ ~\E k \in InFlight : k.op = k2.op /\ Left(k)) => k2.pc = FirstAwait(k2.op)
       /\ \A k \in InFlight :
             (/\ k.op \in RequestingOps
              /\ Left(k)
              /\ ~\E k2 \in BagToSet(calls') : k2.op = k.op /\ Started(k2)) =>
                /\ returned'.op = k.op
                /\ returned'.suspended
                /\ returned'.reply.fails => returned'.result.kind = "CDPError"
       /\ Len(channels') \in {Len(channels), Len(channels) + 1}
       /\ (Len(channels') = Len(channels) + 1) <=>
             \E k \in InFlight, k2 \in BagToSet(calls') :
                /\ k.pc = "opening" /\ Left(k)
                /\ k2.pc = "enabling" /\ Started(k2)
                /\ k2.op = k.op /\ k2.target = k.target
                /\ k2.client = Len(channels')
       /\ \A k \in InFlight :
             (k.pc = "enabling" /\ Left(k)) =>
                /\ returned'.op = k.op
                /\ channels'[k.client].setup \in {"ready", "abandoned"}]_vars

(* connect has thrown after the one attempt of CDP() that was rejected: no
   channel was opened. *)
C26_Witness ==
    /\ returned.op = "connect"
    /\ returned.suspended
    /\ returned.result = ConnectFailed("open failed")
    /\ channels = <<>>

(* ------------------------------------------------------------------------ *)
(* Properties of sessions closed while in use                               *)
(* ------------------------------------------------------------------------ *)

(* C27: a connection object whose flag disconnect has set to false (its
   channel is closed) keeps the flag false and the channel closed, is never
   put into the mapping again, and no call starts to await anything on its
   channel: no enable, no request of an operation, no close; a connection
   that a step puts into the mapping is an object that was not there before,
   on an open channel that the connect storing it opened and no other
   connection ever wrapped. *)
C27_DisconnectedIsTerminal ==
    [][/\ \A c \in 1..Len(channels) :
             channels[c].state = "closed" =>
                /\ ~connected[c]
                /\ ~connected'[c]
                /\ channels'[c].state = "closed"
                /\ \A t \in Targets : connections'[t] # c
                /\ \A k2 \in BagToSet(calls') : Started(k2) => k2.client # c
       /\ \A t \in Targets :
             (connections'[t] # connections[t] /\ connections'[t] # NoConn) =>
                /\ connections'[t] \in 1..Len(channels)
                /\ channels[connections'[t]].state = "open"
                /\ channels[connections'[t]].setup = "enabling"
                /\ ~connected[connections'[t]]
                /\ \A u \in Targets : connections[u] # connections'[t]
                /\ \E k \in InFlight :
                      /\ k.op = "connect" /\ k.pc = "enabling"
                      /\ k.target = t /\ k.client = connections'[t]
                /\ returned'.op = "connect"
                /\ returned'.client = connections'[t]]_vars

(* After the session of a target was closed, a connect to the same target
   has stored a new connection on a second channel, and a querySelector that
   was awaiting its first reply on the closed channel has not sent its
   second request. *)
C27_Witness ==
    /\ returned.op = "connect"
    /\ returned.result = ReturnedVoid
    /\ returned.client = 2
    /\ connections[returned.target] = 2
    /\ connected[2]
    /\ channels[1].state = "closed"
    /\ ~connected[1]
    /\ \E k \in InFlight : k.op = "querySelector" /\ k.pc = "root" /\ k.client = 1

(* C28: in every state another caller can observe (between calls and at every
   await of connect, disconnect and disconnectAll), every entry of the mapping
   holds a connection whose flag is true, so getActiveConnections() is the key
   set of the mapping and isConnected(t) is true exactly when t has an
   entry. *)
C28_EveryEntryIsConnected ==
    /\ \A t \in ConnectionKeys :
          /\ connections[t] \in 1..Len(channels)
          /\ connected[connections[t]]
    /\ getActiveConnections = ConnectionKeys
    /\ \A t \in Targets : isConnected(t) <=> t \in ConnectionKeys

(* A disconnect awaits the close of the stored connection of its target
   while a connect to another target awaits its enables. *)
C28_Witness ==
    /\ \E k \in InFlight :
          /\ k.op = "disconnect" /\ k.pc = "closing"
          /\ connections[k.target] = k.client
          /\ isConnected(k.target)
    /\ \E k \in InFlight :
          /\ k.op = "connect" /\ k.pc = "enabling"
          /\ ~isConnected(k.target)

(* The step is a call of disconnect(t) or of disconnectAll(): it returns at
   once or suspends at the close it awaits. *)
DisconnectCalled(t) ==
    \/ /\ returned'.op \in {"disconnect", "disconnectAll"}
       /\ ~returned'.suspended
       /\ returned'.op = "disconnect" => returned'.target = t
    \/ /\ BagCardinality(calls') > BagCardinality(calls)
       /\ \E k \in BagToSet(calls') :
             /\ Started(k)
             /\ \/ k.op = "disconnectAll"
                \/ k.op = "disconnect" /\ k.target = t

(* C29: when connect(t) has returned successfully, t is connected, and it is
   still connected after the next step unless that step is a call of
   disconnect(t) or disconnectAll(); this holds in every interleaving, also
   when a disconnect(t) was awaiting the close of the channel when connect(t)
   was called. *)
C29_ConnectedUntilDisconnectCalled ==
    [][\A t \in Targets :
          (returned.op = "connect" /\ returned.target = t
                /\ returned.result = ReturnedVoid) =>
             /\ isConnected(t)
             /\ ~DisconnectCalled(t) =>
                   /\ connections'[t] # NoConn
                   /\ connected'[connections'[t]]]_vars

(* C30: the step that deletes the entry of t is a continuation of a
   disconnect(t), alone or under disconnectAll, and the entry it deletes is
   the connection object that disconnect read before it awaited the close;
   the connection a connect stored for t in the meantime is not the one
   dropped. *)
C30_DeletesTheConnectionItClosed ==
    [][\A t \in Targets :
          (connections[t] # NoConn /\ connections'[t] = NoConn) =>
             \E k \in InFlight :
                /\ Left(k)
                /\ \/ /\ k.op = "disconnect" /\ k.pc = "closing"
                      /\ k.target = t
                      /\ k.client = connections[t]
                   \/ /\ k.op = "disconnectAll" /\ k.pc = "closingAll"
                      /\ [target |-> t, conn |-> connections[t]] \in k.closes]_vars

(* ------------------------------------------------------------------------ *)
(* Channels closed from the remote side                                     *)
(* ------------------------------------------------------------------------ *)

(* The application window of a stored connection exits: its channel is
   closed by the remote end.  connect (cdp-client.ts:57-75) registers no
   listener on the client it stores, so neither the flag nor the mapping
   nor the remembered target changes. *)
RemoteClosed(c) ==
    /\ c \in OpenChannels
    /\ channels[c].setup = "ready"
    /\ \E t \in Targets : connections[t] = c
    /\ channels' = [channels EXCEPT ![c].state = "closed"]
    /\ calls' = calls
    /\ returned' = NoReturn
    /\ UNCHANGED <<connections, connected, connectedTargetId>>

(* Calls of ensureConnected while windows exit. *)
NextRemote ==
    \/ CanCall /\ EnsureConnectedCall /\ DeviceUntouched
    \/ \E k \in InFlight, targets \in DiscoveryResults : ListSucceeded(k, targets) /\ DeviceUntouched
    \/ \E k \in InFlight : ListFailed(k) /\ DeviceUntouched
    \/ \E k \in InFlight : ChannelOpened(k) /\ DeviceUntouched
    \/ \E k \in InFlight : ChannelOpenFailed(k) /\ DeviceUntouched
    \/ \E k \in InFlight, rejected \in EnableOutcomes : EnablesSettled(k, rejected) /\ DeviceUntouched
    \/ \E c \in ChannelIds : RemoteClosed(c) /\ DeviceUntouched

SpecRemote == Init /\ [][NextRemote]_vars

(* C31: the session ensureConnected returns is never one whose channel is
   closed: when the channel of the remembered target has been closed from
   the remote side, the target is no longer reported as connected, and
   ensureConnected discovers and connects again. *)
C31_EnsureConnectedSessionIsOpen ==
    /\ \A t \in Targets :
          isConnected(t) => channels[connections[t]].state = "open"
    /\ (returned.op = "ensureConnected" /\ returned.result.value = "session") =>
          \A p \in returned.result.props :
             /\ connections[p[2]] # NoConn
             /\ channels[connections[p[2]]].state = "open"

(* ------------------------------------------------------------------------ *)
(* What the operations leave alone                                          *)
(* ------------------------------------------------------------------------ *)

(* The step belongs to one of the seven operations: it is the call, the
   arrival of a reply, or the return. *)
OpStep ==
    \/ \E k \in InFlight : k.op \in Ops /\ Left(k)
    \/ \E k \in BagToSet(calls') : k.op \in Ops /\ Started(k)
    \/ returned'.op \in Ops

(* C32: no step of getDocument, querySelector, querySelectorAll,
   getNodeAttributes, getOuterHTML, evaluate or screenshot changes the
   mapping, a connected flag or a channel; when one of them returns or
   throws after its request, a script exception and a channel error
   included, its target still maps to the connection it used, connected. *)
C32_OperationsLeaveSessionsAlone ==
    [][/\ OpStep =>
             /\ connections' = connections
             /\ connected' = connected
             /\ channels' = channels
       /\ \A t \in Targets :
             (returned'.op \in Ops /\ returned'.suspended /\ returned'.target = t) =>
                /\ connections'[t] = returned'.client
                /\ connected'[connections'[t]]]_vars

(* evaluate has thrown for a script exception and the target is still
   connected on the channel the call used. *)
C32_Witness ==
    /\ returned.op = "evaluate"
    /\ returned.suspended
    /\ returned.result.kind = "CDPError"
    /\ returned.reply.exception
    /\ isConnected(returned.target)
    /\ connections[returned.target] = returned.client

(* C33: the remembered target id changes only in the step in which
   ensureConnected returns the session of the newly chosen target, which the
   connect it awaited has connected; a step in which ensureConnected throws
   (discovery error, no page target, connect error), and every step before
   it, leaves the remembered id as it was. *)
C33_RememberedOnlyAfterConnect ==
    [][\A t \in Targets \cup {NoTarget} :
          (connectedTargetId' = t /\ connectedTargetId # t) =>
             /\ returned'.op = "ensureConnected"
             /\ returned'.result = Returned("session", {<<"targetId", t>>})
             /\ connections'[t] # NoConn
             /\ connected'[connections'[t]]]_vars

(* C34: when electron_reset has returned, no channel is open but the one of
   the remembered target on the new client: every channel opened through the
   client that was discarded is closed; after a success the remembered target
   is set and connected; after a result flagged isError the remembered target
   and the client are cleared. *)
C34_ResetLeavesNoChannelBehind ==
    returned.op = "electron_reset" =>
       /\ \A c \in 1..Len(channels) :
             channels[c].state = "open" =>
                /\ connectedTargetId # NoTarget
                /\ connections[connectedTargetId] = c
       /\ returned.result.props = {} =>
             /\ connectedTargetId # NoTarget
             /\ isConnected(connectedTargetId)
       /\ returned.result.props # {} =>
             /\ connectedTargetId = NoTarget
             /\ ConnectionKeys = {}

(* C35: electron_execute returns a result flagged isError exactly when the
   connection or the evaluation failed or the code threw inside the target;
   code that completes normally, whatever value it returns, gives a result
   that is not flagged and holds that value. *)
C35_ExecuteErrorIffCodeFailed ==
    [][(HandlerDue /\ returned'.op = "electron_execute") =>
          /\ returned'.result.props = {<<"isError", "true">>} <=>
                \/ returned.result.kind # "ok"
                \/ returned.op = "evaluate" /\ returned.reply.threw
          /\ (returned.result.kind = "ok" /\ ~returned.reply.threw) =>
                returned'.result = ToolResult(returned.result.value, FALSE)]_vars

(* The robotjs calls of the last device step that ran to their end: all of
   them, or all but the last when that one threw. *)
Completed ==
    IF returned.reply.fails THEN SubSeq(device, 1, Len(device) - 1) ELSE device

(* C36: when drag returns or throws, the mouse button is released: if its
   mouseToggle('down') ran, its mouseToggle('up') ran after it, also when
   dragMouse threw in between. *)
C36_DragReleasesTheButton ==
    returned.op = ManagerOp("drag") =>
       \A i \in 1..Len(Completed) :
          (Completed[i] = "mouseToggle" /\ i = 2) =>
             /\ Len(Completed) = 4
             /\ Completed[4] = "mouseToggle"

(* C37: the status requestPermission returns is the status checkPermission
   reports right after it, on every path, the one where the prompt of the OS
   fails included; checkPermission never throws: it answers one of the four
   statuses, and 'not-determined' when the status cannot be read. *)
C37_RequestReturnsCurrentStatus ==
    /\ \A c \in Capabilities :
          /\ checkPermission(c) \in Statuses
          /\ permissions[c] = Unreadable => checkPermission(c) = "not-determined"
    /\ returned.op = "requestPermission" =>
          returned.result = Returned(checkPermission(returned.target), {})

====
